---------------------------- MODULE Spec2Model ----------------------------
(***************************************************************************)
(* A model of src/app/page.tsx (DataEnrich Pro): the delimited-text        *)
(* parser, the deep extraction of the agent's response, the record         *)
(* normalizer, the artifact locator, the filter/sort engine and the        *)
(* enrichment run of the Page component.                                   *)
(*                                                                         *)
(* JavaScript strings are TLA+ strings (TLC reads them with Len, SubSeq    *)
(* and \o).  Every other JavaScript value is a record tagged by its type   *)
(* in the field t.                                                         *)
(***************************************************************************)
EXTENDS Integers, Sequences, FiniteSets, TLC

VARIABLES
    \* --- the state of the Page component (page.tsx 282-307)
    view, sampleMode, selectedFile, previewRows, totalRowCount, fileError,
    loading, activeAgentId, enrichedData, summary, artifactFiles,
    statusMessage, errorMessage, rawResponseText,
    filterMode, sortField, sortDir,
    \* --- the FileReaders that have not fired yet, oldest first
    readers,
    \* --- the latest enrichment run: its position and what it holds
    pc, run,
    \* --- a call of one of the pure functions: its name, argument, result
    fn, arg, ret,
    \* --- the frames of deepExtractEnrichedData's recursion, innermost last
    stack

pageVars == <<view, sampleMode, selectedFile, previewRows, totalRowCount,
              fileError, loading, activeAgentId, enrichedData, summary,
              artifactFiles, statusMessage, errorMessage, rawResponseText,
              filterMode, sortField, sortDir, readers, pc, run>>
callVars == <<fn, arg, ret, stack>>
vars == <<pageVars, callVars>>

(***************************************************************************)
(* Characters and strings                                                  *)
(***************************************************************************)
UpperCase == "ABCDEFGHIJKLMNOPQRSTUVWXYZ"
LowerCase == "abcdefghijklmnopqrstuvwxyz"
\* The characters the model uses, in the order of their UTF-16 code units.
CodeOrder == "\t\n\r !\"#$%&'()*+,-./0123456789:;<=>?@ABCDEFGHIJKLMNOPQRSTUVWXYZ[\\]^_abcdefghijklmnopqrstuvwxyz{|}~"

CharAt(s, i) == SubSeq(s, i, i)

IndexIn(c, s) ==
    IF \E i \in 1..Len(s) : CharAt(s, i) = c
    THEN CHOOSE i \in 1..Len(s) : CharAt(s, i) = c
    ELSE 0

\* The place of a character in CodeOrder, 0 for any other character.
CodeTable ==
    [c \in {CharAt(CodeOrder, i) : i \in 1..Len(CodeOrder)} |-> IndexIn(c, CodeOrder)]
Code(c) == IF c \in DOMAIN CodeTable THEN CodeTable[c] ELSE 0

LowerTable ==
    [c \in {CharAt(UpperCase, i) : i \in 1..Len(UpperCase)} |->
        CharAt(LowerCase, IndexIn(c, UpperCase))]
LowerChar(c) == IF c \in DOMAIN LowerTable THEN LowerTable[c] ELSE c

RECURSIVE toLowerCase(_)
toLowerCase(s) ==
    IF Len(s) = 0 THEN "" ELSE LowerChar(CharAt(s, 1)) \o toLowerCase(Tail(s))

IsSpace(c) == c \in {" ", "\t", "\r", "\n"}

RECURSIVE trimStart(_)
trimStart(s) ==
    IF Len(s) > 0 /\ IsSpace(CharAt(s, 1)) THEN trimStart(Tail(s)) ELSE s

RECURSIVE trimEnd(_)
trimEnd(s) ==
    IF Len(s) > 0 /\ IsSpace(CharAt(s, Len(s)))
    THEN trimEnd(SubSeq(s, 1, Len(s) - 1))
    ELSE s

trim(s) == trimEnd(trimStart(s))

\* s.split(sep) for a one-character separator: Len >= 1 always.
RECURSIVE splitChar(_, _, _, _)
splitChar(s, sep, i, cur) ==
    IF i > Len(s) THEN <<cur>>
    ELSE IF CharAt(s, i) = sep THEN <<cur>> \o splitChar(s, sep, i + 1, "")
    ELSE splitChar(s, sep, i + 1, cur \o CharAt(s, i))

\* text.split(/\r?\n/): a line ends at "\n"; one "\r" right before it belongs
\* to the separator.
RECURSIVE splitLines(_, _, _)
splitLines(s, i, cur) ==
    IF i > Len(s) THEN <<cur>>
    ELSE IF CharAt(s, i) = "\n"
         THEN <<(IF Len(cur) > 0 /\ CharAt(cur, Len(cur)) = "\r"
                 THEN SubSeq(cur, 1, Len(cur) - 1) ELSE cur)>>
              \o splitLines(s, i + 1, "")
    ELSE splitLines(s, i + 1, cur \o CharAt(s, i))

\* s contains sub (the regular expression /sub/ without anchors).
includes(s, sub) ==
    \E i \in 1..(Len(s) - Len(sub) + 1) : SubSeq(s, i, i + Len(sub) - 1) = sub

(***************************************************************************)
(* JavaScript objects with string keys: a sequence of <<key, value>>       *)
(* pairs in insertion order (the order of Object.keys).                    *)
(***************************************************************************)
HasKey(kv, k) == \E i \in 1..Len(kv) : kv[i][1] = k
KeyIndex(kv, k) == CHOOSE i \in 1..Len(kv) : kv[i][1] = k
\* o[k] = v
SetKey(kv, k, v) ==
    IF HasKey(kv, k)
    THEN [kv EXCEPT ![KeyIndex(kv, k)] = <<k, v>>]
    ELSE Append(kv, <<k, v>>)

(***************************************************************************)
(* The CSV parser (page.tsx 82-135)                                        *)
(***************************************************************************)
\* The scanner of parseCSVLine: the loop of lines 111-132 from index i on.
RECURSIVE scanCSVLine(_, _, _, _, _)
scanCSVLine(line, i, current, inQuotes, result) ==
    IF i > Len(line) THEN Append(result, current)
    ELSE LET ch == CharAt(line, i) IN
         IF inQuotes
         THEN IF ch = "\"" /\ i + 1 <= Len(line) /\ CharAt(line, i + 1) = "\""
              THEN scanCSVLine(line, i + 2, current \o "\"", TRUE, result)
              ELSE IF ch = "\""
              THEN scanCSVLine(line, i + 1, current, FALSE, result)
              ELSE scanCSVLine(line, i + 1, current \o ch, TRUE, result)
         ELSE IF ch = "\""
              THEN scanCSVLine(line, i + 1, current, TRUE, result)
              ELSE IF ch = ","
              THEN scanCSVLine(line, i + 1, "", FALSE, Append(result, current))
              ELSE scanCSVLine(line, i + 1, current \o ch, FALSE, result)

\* A scanner that knows no escaped quote: every quote toggles the state.
parseCSVLineNoEscape(line) ==
    LET RECURSIVE scan(_, _, _, _)
        scan(i, current, inQuotes, result) ==
            IF i > Len(line) THEN Append(result, current)
            ELSE LET ch == CharAt(line, i) IN
                 IF ch = "\"" THEN scan(i + 1, current, ~inQuotes, result)
                 ELSE IF ch = "," /\ ~inQuotes
                 THEN scan(i + 1, "", FALSE, Append(result, current))
                 ELSE scan(i + 1, current \o ch, inQuotes, result)
    IN scan(1, "", FALSE, <<>>)

parseCSVLine(line) == scanCSVLine(line, 1, "", FALSE, <<>>)

\* h.trim().replace(/^["']|["']$/g, '')
stripHeaderQuotes(h) ==
    LET t1 == trim(h)
        t2 == IF Len(t1) > 0 /\ CharAt(t1, 1) \in {"\"", "'"} THEN Tail(t1) ELSE t1
    IN IF Len(t2) > 0 /\ CharAt(t2, Len(t2)) \in {"\"", "'"}
       THEN SubSeq(t2, 1, Len(t2) - 1) ELSE t2

parseHeaders(headerLine) ==
    LET parts == splitChar(headerLine, ",", 1, "")
    IN [i \in 1..Len(parts) |-> stripHeaderQuotes(parts[i])]

\* /^(a.b)$/i: the character between a and b is required.
MatchDot(h, a, b) ==
    /\ Len(h) = Len(a) + Len(b) + 1
    /\ SubSeq(h, 1, Len(a)) = a
    /\ SubSeq(h, Len(a) + 2, Len(h)) = b
    /\ CharAt(h, Len(a) + 1) \notin {"\n", "\r"}

\* /^(a.?b)$/i against an already lower-cased h: a, at most one character that
\* is no line terminator, b.
MatchOptDot(h, a, b) ==
    \/ h = a \o b
    \/ /\ Len(h) = Len(a) + Len(b) + 1
       /\ SubSeq(h, 1, Len(a)) = a
       /\ SubSeq(h, Len(a) + 2, Len(h)) = b
       /\ CharAt(h, Len(a) + 1) \notin {"\n", "\r"}

\* /^(name|full.?name|contact.?name|person)$/i
isNameHeader(h) ==
    LET l == toLowerCase(h)
    IN l \in {"name", "person"} \/ MatchOptDot(l, "full", "name")
       \/ MatchOptDot(l, "contact", "name")

\* /^(company|organization|org|company.?name|employer)$/i
isCompanyHeader(h) ==
    LET l == toLowerCase(h)
    IN l \in {"company", "organization", "org", "employer"}
       \/ MatchOptDot(l, "company", "name")

\* headers.findIndex(pred): 0-based, -1 when no header matches.
nameIdx(headers) ==
    IF \E i \in 1..Len(headers) : isNameHeader(headers[i])
    THEN (CHOOSE i \in 1..Len(headers) :
             isNameHeader(headers[i])
             /\ \A j \in 1..(i - 1) : ~isNameHeader(headers[j])) - 1
    ELSE -1

companyIdx(headers) ==
    IF \E i \in 1..Len(headers) : isCompanyHeader(headers[i])
    THEN (CHOOSE i \in 1..Len(headers) :
             isCompanyHeader(headers[i])
             /\ \A j \in 1..(i - 1) : ~isCompanyHeader(headers[j])) - 1
    ELSE -1

\* values[k]?.trim() ?? ''   (k is 0-based)
trimmedAt(values, k) == IF k < Len(values) THEN trim(values[k + 1]) ELSE ""

\* Lines 94-95: the name and the company a data line resolves to.
resolvedName(headers, values) ==
    IF nameIdx(headers) >= 0 /\ nameIdx(headers) < Len(values)
    THEN trim(values[nameIdx(headers) + 1]) ELSE trimmedAt(values, 0)

resolvedCompany(headers, values) ==
    IF companyIdx(headers) >= 0 /\ companyIdx(headers) < Len(values)
    THEN trim(values[companyIdx(headers) + 1]) ELSE trimmedAt(values, 1)

\* Lines 97-101: headers.forEach((h, idx) => row[h] = values[idx].trim())
RECURSIVE copyHeaders(_, _, _, _)
copyHeaders(row, headers, values, idx) ==
    IF idx > Len(headers) THEN row
    ELSE copyHeaders(IF idx <= Len(values)
                     THEN SetKey(row, headers[idx], trim(values[idx]))
                     ELSE row,
                     headers, values, idx + 1)

\* Lines 93-101: the row object built from one data line.
buildRow(headers, values) ==
    copyHeaders(<< <<"name", resolvedName(headers, values)>>,
                   <<"company", resolvedCompany(headers, values)>> >>,
                headers, values, 1)

rowName(row) == row[KeyIndex(row, "name")][2]
rowCompany(row) == row[KeyIndex(row, "company")][2]

\* Line 83: the lines of the text that are not blank.
nonBlankLines(text) ==
    SelectSeq(splitLines(text, 1, ""), LAMBDA l : Len(trim(l)) > 0)

\* Lines 90-103
RECURSIVE parseRows(_, _, _)
parseRows(headers, lines, i) ==
    IF i > Len(lines) THEN <<>>
    ELSE LET values == parseCSVLine(lines[i])
             row == buildRow(headers, values)
         IN (IF rowName(row) # "" \/ rowCompany(row) # "" THEN <<row>> ELSE <<>>)
            \o parseRows(headers, lines, i + 1)

parseCSV(text) ==
    LET lines == nonBlankLines(text)
    IN IF Len(lines) < 2 THEN <<>>
       ELSE parseRows(parseHeaders(lines[1]), lines, 2)

(***************************************************************************)
(* JavaScript values.  A string that the JSON decoders accept carries, in  *)
(* json, the value they decode it to; strict tells whether the text is a   *)
(* JSON document as it stands (JSON.parse accepts it) or a JSON document   *)
(* inside prose or fences (only the lenient decoder accepts it).           *)
(***************************************************************************)
Null == [t |-> "null"]
Undef == [t |-> "undef"]
NaN == [t |-> "nan"]
Bool(b) == [t |-> "bool", b |-> b]
\* A number, held in tenths: Num(3) is 3, Tenths(25) is 2.5.
Tenths(k) == [t |-> "num", tenths |-> k]
Num(n) == Tenths(10 * n)
Str(s) == [t |-> "str", s |-> s]
JsonStr(s, strict, v) == [t |-> "str", s |-> s, strict |-> strict, json |-> v]
Arr(el) == [t |-> "arr", el |-> el]
Obj(kv) == [t |-> "obj", kv |-> kv]

\* A reference to an object that holds itself (JavaScript objects are
\* references; a value that is a tree holds its children in place).
Ref(id) == [t |-> "ref", id |-> id]
Heap(id) ==
    CASE id = "selfResult" -> Obj(<< <<"status", Str("ok")>>, <<"result", Ref("selfResult")>> >>)
      [] id = "selfOther"  -> Obj(<< <<"parent", Ref("selfOther")>> >>)
      [] id = "selfArray"  -> Arr(<< Num(1), Ref("selfArray") >>)
Deref(v) == IF v.t = "ref" THEN Heap(v.id) ELSE v

\* !v
Falsy(v) ==
    \/ v.t \in {"null", "undef", "nan"}
    \/ v.t = "bool" /\ ~v.b
    \/ v.t = "num" /\ v.tenths = 0
    \/ v.t = "str" /\ v.s = ""
\* v == null
Nullish(v) == v.t \in {"null", "undef"}
\* typeof v === 'object' && v !== null
IsObject(v) == v.t \in {"obj", "arr"}
\* Array.isArray(v)
IsArray(v) == v.t = "arr"
\* k in v, for an object or array v and a key k that is no index
In(k, v) == v.t = "obj" /\ HasKey(v.kv, k)
\* v[k] and v?.[k] of a value that is not null or undefined, for a key k that
\* is no index and no built-in property: undefined unless v is an object
\* holding k.
Get(v, k) == IF In(k, v) THEN Deref(v.kv[KeyIndex(v.kv, k)][2]) ELSE Undef
\* v?.[k]
GetOpt(v, k) == IF Nullish(v) THEN Undef ELSE Get(v, k)
\* The values of Object.keys(v).map(k => v[k]) of an object or array.
OwnValues(v) ==
    IF v.t = "arr" THEN [i \in 1..Len(v.el) |-> Deref(v.el[i])]
    ELSE [i \in 1..Len(v.kv) |-> Deref(v.kv[i][2])]
\* a ?? b
Coalesce(a, b) == IF Nullish(a) THEN b ELSE a

(***************************************************************************)
(* The JSON decoders.  parseLLMJson is @/lib/jsonParser, which page.tsx    *)
(* imports; spec.md 1 describes it: it returns the value of a JSON         *)
(* document that may stand inside prose, or fails.  JSON.parse accepts     *)
(* only a text that is a JSON document as it stands.                       *)
(***************************************************************************)
Thrown == [t |-> "throw"]
parseLLMJson(v) == IF "json" \in DOMAIN v THEN v.json ELSE Thrown
JSONparse(v) == IF "json" \in DOMAIN v /\ v.strict THEN v.json ELSE Thrown

(***************************************************************************)
(* deepExtractEnrichedData (page.tsx 388-443)                              *)
(***************************************************************************)
MaxDepth == 10
EmptyResult == [enriched |-> <<>>, summary |-> Null, artifacts |-> <<>>]
\* The wrapper keys with the last of them put first
wrapperKeysTextFirst == <<"text", "result", "response", "data", "output", "content", "message">>
\* Line 419
wrapperKeys == <<"result", "response", "data", "output", "content", "message", "text">>

\* Line 389: depth > 10
tooDeepLate(depth) == depth > MaxDepth + 1
tooDeep(depth) == depth > MaxDepth

\* Line 405: Array.isArray(obj.enriched_data) && obj.enriched_data.length > 0
hasEnrichedData(obj) ==
    IsArray(Get(obj, "enriched_data")) /\ Len(Get(obj, "enriched_data").el) > 0

\* Lines 406-410
directMatch(obj) ==
    [enriched |-> Get(obj, "enriched_data").el,
     summary |-> Coalesce(Get(obj, "summary"), Null),
     artifacts |-> IF IsArray(Get(obj, "artifact_files"))
                   THEN Get(obj, "artifact_files").el ELSE <<>>]

\* Line 414: an array whose first element looks like an enrichment record
looksLikeRecordsAllThree(obj) ==
    /\ IsArray(obj) /\ Len(obj.el) > 0
    /\ ~Falsy(Deref(obj.el[1])) /\ IsObject(Deref(obj.el[1]))
    /\ (In("name", Deref(obj.el[1])) \/ In("company", Deref(obj.el[1])))
    /\ In("revenue", Deref(obj.el[1])) /\ In("sector", Deref(obj.el[1]))
    /\ In("decision_maker", Deref(obj.el[1]))
looksLikeRecords(obj) ==
    /\ IsArray(obj) /\ Len(obj.el) > 0
    /\ ~Falsy(Deref(obj.el[1])) /\ IsObject(Deref(obj.el[1]))
    /\ (In("name", Deref(obj.el[1])) \/ In("company", Deref(obj.el[1])))
    /\ (In("revenue", Deref(obj.el[1])) \/ In("sector", Deref(obj.el[1]))
        \/ In("decision_maker", Deref(obj.el[1])))

\* Lines 428-432: some own key is enriched_data and holds an array
hasEnrichedDataKey(obj) ==
    obj.t = "obj" /\ HasKey(obj.kv, "enriched_data") /\ IsArray(Get(obj, "enriched_data"))

RECURSIVE deepExtractEnrichedData(_, _), tryWrapperKeys(_, _, _), scanAllValues(_, _, _)

\* Lines 420-425 from wrapperKeys[i] on: the first non-empty inner result.
tryWrapperKeys(obj, depth, i) ==
    IF i > Len(wrapperKeys) THEN EmptyResult
    ELSE IF ~Nullish(Get(obj, wrapperKeys[i]))
         THEN LET inner == deepExtractEnrichedData(Get(obj, wrapperKeys[i]), depth + 1)
              IN IF Len(inner.enriched) > 0 THEN inner
                 ELSE tryWrapperKeys(obj, depth, i + 1)
         ELSE tryWrapperKeys(obj, depth, i + 1)

\* Lines 435-440 from the i-th own key on.
scanAllValues(obj, depth, i) ==
    IF i > Len(OwnValues(obj)) THEN EmptyResult
    ELSE IF IsObject(OwnValues(obj)[i])
         THEN LET inner == deepExtractEnrichedData(OwnValues(obj)[i], depth + 1)
              IN IF Len(inner.enriched) > 0 THEN inner
                 ELSE scanAllValues(obj, depth, i + 1)
         ELSE scanAllValues(obj, depth, i + 1)

deepExtractEnrichedData(obj, depth) ==
    IF Falsy(obj) \/ tooDeep(depth) THEN EmptyResult
    ELSE IF obj.t = "str"
         THEN LET parsed == parseLLMJson(obj)
              IN IF parsed # Thrown /\ ~Falsy(parsed) /\ IsObject(parsed)
                 THEN deepExtractEnrichedData(parsed, depth + 1)
                 ELSE EmptyResult
    ELSE IF ~IsObject(obj) THEN EmptyResult
    ELSE IF hasEnrichedData(obj) THEN directMatch(obj)
    ELSE IF looksLikeRecords(obj)
         THEN [enriched |-> obj.el, summary |-> Null, artifacts |-> <<>>]
    ELSE LET inner == tryWrapperKeys(obj, depth, 1)
         IN IF Len(inner.enriched) > 0 THEN inner
            ELSE IF hasEnrichedDataKey(obj)
                 THEN [enriched |-> Get(obj, "enriched_data").el,
                       summary |-> Coalesce(Get(obj, "summary"), Null),
                       artifacts |-> <<>>]
            ELSE scanAllValues(obj, depth, 1)

(***************************************************************************)
(* extractArtifactFiles (page.tsx 446-469)                                 *)
(***************************************************************************)
\* x?.module_outputs?.artifact_files
artifactFilesAt(x) == GetOpt(GetOpt(x, "module_outputs"), "artifact_files")

\* Lines 457-467: the two probes inside the decoded raw_response.
rawProbes(raw) ==
    IF IsArray(artifactFilesAt(raw)) THEN artifactFilesAt(raw).el
    ELSE IF IsArray(artifactFilesAt(GetOpt(raw, "response")))
    THEN artifactFilesAt(GetOpt(raw, "response")).el
    ELSE <<>>

\* Lines 446-469 with the lenient decoder at line 458
extractArtifactFilesLenient(result) ==
    IF Falsy(result) THEN <<>>
    ELSE IF IsArray(artifactFilesAt(result)) /\ Len(artifactFilesAt(result).el) > 0
    THEN artifactFilesAt(result).el
    ELSE IF IsArray(artifactFilesAt(Get(result, "response")))
            /\ Len(artifactFilesAt(Get(result, "response")).el) > 0
    THEN artifactFilesAt(Get(result, "response")).el
    ELSE IF ~Falsy(Get(result, "raw_response")) /\ Get(result, "raw_response").t = "str"
            /\ parseLLMJson(Get(result, "raw_response")) # Thrown
    THEN rawProbes(parseLLMJson(Get(result, "raw_response")))
    ELSE <<>>

extractArtifactFiles(result) ==
    IF Falsy(result) THEN <<>>
    ELSE IF IsArray(artifactFilesAt(result)) /\ Len(artifactFilesAt(result).el) > 0
    THEN artifactFilesAt(result).el
    ELSE IF IsArray(artifactFilesAt(Get(result, "response")))
            /\ Len(artifactFilesAt(Get(result, "response")).el) > 0
    THEN artifactFilesAt(Get(result, "response")).el
    ELSE IF ~Falsy(Get(result, "raw_response")) /\ Get(result, "raw_response").t = "str"
            /\ JSONparse(Get(result, "raw_response")) # Thrown
    THEN rawProbes(JSONparse(Get(result, "raw_response")))
    ELSE <<>>

(***************************************************************************)
(* String(v) and Number(v)                                                 *)
(***************************************************************************)
Digits == "0123456789"

RECURSIVE natToString(_)
natToString(n) ==
    IF n < 10 THEN CharAt(Digits, n + 1)
    ELSE natToString(n \div 10) \o CharAt(Digits, (n % 10) + 1)

\* The decimal form of a number held in tenths.
tenthsToString(k) ==
    LET a == IF k < 0 THEN -k ELSE k
    IN (IF k < 0 THEN "-" ELSE "") \o natToString(a \div 10)
       \o (IF a % 10 = 0 THEN "" ELSE "." \o natToString(a % 10))

RECURSIVE JSString(_), joinElements(_, _)
\* Array.prototype.join(','): null and undefined elements give the empty text.
joinElements(el, i) ==
    IF i > Len(el) THEN ""
    ELSE (IF i > 1 THEN "," ELSE "")
         \o (IF Nullish(Deref(el[i])) THEN "" ELSE JSString(Deref(el[i])))
         \o joinElements(el, i + 1)
JSString(v) ==
    CASE v.t = "str" -> v.s
      [] v.t = "num" -> tenthsToString(v.tenths)
      [] v.t = "nan" -> "NaN"
      [] v.t = "bool" -> IF v.b THEN "true" ELSE "false"
      [] v.t = "null" -> "null"
      [] v.t = "undef" -> "undefined"
      [] v.t = "arr" -> joinElements(v.el, 1)
      [] v.t = "obj" -> "[object Object]"

IsDigits(s) == Len(s) > 0 /\ \A i \in 1..Len(s) : IndexIn(CharAt(s, i), Digits) > 0

RECURSIVE digitsToNat(_)
digitsToNat(s) ==
    IF Len(s) = 0 THEN 0
    ELSE 10 * digitsToNat(SubSeq(s, 1, Len(s) - 1)) + (IndexIn(CharAt(s, Len(s)), Digits) - 1)

\* Number(text) for the decimal literals with at most one fractional digit
\* (tenths hold no more); any other text here is not a number.
stringToNumber(text) ==
    LET s == trim(text)
        neg == Len(s) > 0 /\ CharAt(s, 1) = "-"
        u == IF Len(s) > 0 /\ CharAt(s, 1) \in {"-", "+"} THEN Tail(s) ELSE s
        sign == IF neg THEN -1 ELSE 1
    IN IF s = "" THEN Num(0)
       ELSE IF IsDigits(u) THEN Tenths(sign * 10 * digitsToNat(u))
       ELSE IF Len(u) >= 3 /\ CharAt(u, Len(u) - 1) = "."
               /\ IsDigits(SubSeq(u, 1, Len(u) - 2)) /\ IsDigits(CharAt(u, Len(u)))
       THEN Tenths(sign * (10 * digitsToNat(SubSeq(u, 1, Len(u) - 2))
                           + digitsToNat(CharAt(u, Len(u)))))
       ELSE NaN

JSNumber(v) ==
    CASE v.t = "num" -> v
      [] v.t = "nan" -> NaN
      [] v.t = "null" -> Num(0)
      [] v.t = "undef" -> NaN
      [] v.t = "bool" -> IF v.b THEN Num(1) ELSE Num(0)
      [] v.t = "str" -> stringToNumber(v.s)
      [] v.t = "arr" -> stringToNumber(JSString(v))
      [] v.t = "obj" -> NaN

(***************************************************************************)
(* Normalization and the summary (page.tsx 599-621)                        *)
(***************************************************************************)
\* The chain read from its last alias to its first
RECURSIVE lastAlias(_, _, _, _)
lastAlias(r, aliases, i, default) ==
    IF i > Len(aliases) THEN default
    ELSE IF ~Nullish(Get(r, aliases[Len(aliases) + 1 - i]))
    THEN JSString(Get(r, aliases[Len(aliases) + 1 - i]))
    ELSE lastAlias(r, aliases, i + 1, default)

\* String(r.a1 ?? r.a2 ?? ... ?? default)
RECURSIVE firstAlias(_, _, _, _)
firstAlias(r, aliases, i, default) ==
    IF i > Len(aliases) THEN default
    ELSE IF ~Nullish(Get(r, aliases[i])) THEN JSString(Get(r, aliases[i]))
    ELSE firstAlias(r, aliases, i + 1, default)

\* Lines 600-606, for a raw record r that is not null or undefined.
normalizeRecordAllNA(r) ==
    [name |-> firstAlias(r, <<"name", "person_name", "contact_name", "full_name">>, 1, "N/A"),
     company |-> firstAlias(r, <<"company", "company_name", "organization">>, 1, "N/A"),
     revenue |-> firstAlias(r, <<"revenue", "company_revenue", "annual_revenue">>, 1, "N/A"),
     sector |-> firstAlias(r, <<"sector", "industry", "company_sector">>, 1, "N/A"),
     decision_maker |-> firstAlias(r, <<"decision_maker", "is_decision_maker", "decisionMaker">>, 1, "N/A"),
     job_title |-> firstAlias(r, <<"job_title", "title", "role", "position", "jobTitle">>, 1, "N/A"),
     confidence |-> firstAlias(r, <<"confidence", "confidence_level", "confidenceLevel">>, 1, "N/A")]
normalizeRecord(r) ==
    [name |-> firstAlias(r, <<"name", "person_name", "contact_name", "full_name">>, 1, ""),
     company |-> firstAlias(r, <<"company", "company_name", "organization">>, 1, ""),
     revenue |-> firstAlias(r, <<"revenue", "company_revenue", "annual_revenue">>, 1, "N/A"),
     sector |-> firstAlias(r, <<"sector", "industry", "company_sector">>, 1, "N/A"),
     decision_maker |-> firstAlias(r, <<"decision_maker", "is_decision_maker", "decisionMaker">>, 1, "N/A"),
     job_title |-> firstAlias(r, <<"job_title", "title", "role", "position", "jobTitle">>, 1, "N/A"),
     confidence |-> firstAlias(r, <<"confidence", "confidence_level", "confidenceLevel">>, 1, "Low")]

\* Line 599: extracted.enriched.map(...); reading a property of a null or
\* undefined element throws a TypeError.
normalizeThrows(enriched) == \E i \in 1..Len(enriched) : Nullish(Deref(enriched[i]))
normalizeEnriched(enriched) ==
    [i \in 1..Len(enriched) |-> normalizeRecord(Deref(enriched[i]))]

\* Number(x) || fallback
numberOr(x, fallback) == IF Falsy(JSNumber(x)) THEN fallback ELSE JSNumber(x)

\* The number of records whose field is word, ignoring case.
countEqual(records, field, word) ==
    Cardinality({i \in 1..Len(records) : toLowerCase(records[i][field]) = word})

\* The number of records whose field contains word, ignoring case.
countMatching(records, field, word) ==
    Cardinality({i \in 1..Len(records) : includes(toLowerCase(records[i][field]), word)})

\* Lines 611-621
buildSummary(summaryData, normalizedEnriched) ==
    IF ~Falsy(summaryData)
    THEN [total_records |-> numberOr(Get(summaryData, "total_records"),
                                     Num(Len(normalizedEnriched))),
          decision_makers_found |-> numberOr(Get(summaryData, "decision_makers_found"), Num(0)),
          low_confidence_count |-> numberOr(Get(summaryData, "low_confidence_count"), Num(0)),
          high_confidence_rate |->
              JSString(Coalesce(Get(summaryData, "high_confidence_rate"), Str("0%")))]
    ELSE [total_records |-> Num(Len(normalizedEnriched)),
          decision_makers_found |-> Num(countMatching(normalizedEnriched, "decision_maker", "yes")),
          low_confidence_count |-> Num(countMatching(normalizedEnriched, "confidence", "low")),
          high_confidence_rate |->
              IF Len(normalizedEnriched) > 0
              THEN natToString((200 * countMatching(normalizedEnriched, "confidence", "high")
                                + Len(normalizedEnriched)) \div (2 * Len(normalizedEnriched)))
                   \o "%"
              ELSE "0%"]

(***************************************************************************)
(* The state of the Page component after construction (page.tsx 282-307)   *)
(***************************************************************************)
PageInit ==
    /\ view = "upload"
    /\ sampleMode = FALSE
    /\ selectedFile = Null
    /\ previewRows = <<>>
    /\ totalRowCount = 0
    /\ fileError = Null
    /\ loading = FALSE
    /\ activeAgentId = Null
    /\ enrichedData = <<>>
    /\ summary = Null
    /\ artifactFiles = <<>>
    /\ statusMessage = Null
    /\ errorMessage = Null
    /\ rawResponseText = Null
    /\ filterMode = "all"
    /\ sortField = "name"
    /\ sortDir = "asc"
    /\ readers = <<>>
    /\ pc = "idle"
    /\ run = Null

(***************************************************************************)
(* The CSV parser applied to bounded texts                                 *)
(***************************************************************************)
MaxLineLen == 5
MaxDataLines == 2

RECURSIVE StringsUpTo(_, _)
StringsUpTo(chars, n) ==
    IF n = 0 THEN {""}
    ELSE LET P == StringsUpTo(chars, n - 1)
         IN P \cup {s \o c : s \in P, c \in chars}

QuotedExample == "\"Acme, Inc.\"\"Global\"\"\""

CsvLines == StringsUpTo({"a", ",", "\""}, MaxLineLen) \cup {QuotedExample}

CsvHeaders == {"Name,Company", "name,name", "id,company name,company",
               "Full Name , Employer,Notes", "\"Name\",'Company'", "a,b",
               "Person,Name,Org,Employer"}
CsvDataLines == {"Jane Doe,Acme Corp", "Jane,", ",Acme Corp,", ",", "  ",
                 "\"Doe, Jane\",Acme", "x"}
LineBreaks == {"\n", "\r\n"}

\* The texts of n data lines, each ended by the line break nl.
RECURSIVE CsvBodies(_, _)
CsvBodies(nl, n) ==
    IF n = 0 THEN {""}
    ELSE {l \o nl \o b : l \in CsvDataLines, b \in CsvBodies(nl, n - 1)}

CsvTexts ==
    {""} \cup CsvHeaders
    \cup UNION {{h \o nl \o b : h \in CsvHeaders, b \in CsvBodies(nl, n)} :
                  nl \in LineBreaks, n \in 0..MaxDataLines}

\* Header texts, as they stand after trimming and stripping (line 86).
HeaderTexts ==
    {"name", "Name", "NAME", "person", "Person", "full name", "Full Name", "full.name",
     "fullname", "FullName", "full_name", "full-name", "full  name", "full\rname",
     "contact name", "contact.name", "contactname", "contact_name", "Contact-Name",
     "first name", "names", "surname", "person name", "persons", "nam",
     "company", "Company", "COMPANY", "organization", "Organization", "org", "ORG",
     "employer", "Employer", "company name", "company.name", "companyname",
     "CompanyName", "company_name", "company  name", "company\rname",
     "my company", "companies", "organisation", "orgs", "employers", "the employer",
     "id", "email", "notes"}

InitCSV ==
    /\ PageInit
    /\ fn = "none"
    /\ arg \in CsvLines \cup CsvTexts \cup HeaderTexts
    /\ ret = <<>>
    /\ stack = <<>>

CallParseCSVLine ==
    /\ fn = "none"
    /\ arg \in CsvLines
    /\ fn' = "parseCSVLine"
    /\ ret' = parseCSVLine(arg)
    /\ UNCHANGED <<arg, stack, pageVars>>

CallParseCSV ==
    /\ fn = "none"
    /\ arg \in CsvTexts
    /\ fn' = "parseCSV"
    /\ ret' = parseCSV(arg)
    /\ UNCHANGED <<arg, stack, pageVars>>

\* Lines 87-88: the two tests of findIndex on one header
CallTestHeader ==
    /\ fn = "none"
    /\ arg \in HeaderTexts
    /\ fn' = "testHeader"
    /\ ret' = [name |-> isNameHeader(arg), company |-> isCompanyHeader(arg)]
    /\ UNCHANGED <<arg, stack, pageVars>>

NextCSV == CallParseCSVLine \/ CallParseCSV \/ CallTestHeader

SpecCSV == InitCSV /\ [][NextCSV]_vars

(***************************************************************************)
(* The extraction, the normalizer and the artifact locator applied to      *)
(* bounded agent responses                                                 *)
(***************************************************************************)
MaxWraps == 3
MaxNest == 15
MaxRecords == 2

RecFull ==
    Obj(<< <<"name", Str("Jane Doe")>>, <<"company", Str("Acme Corp")>>,
           <<"revenue", Str("$10M")>>, <<"sector", Str("SaaS")>>,
           <<"decision_maker", Str("Yes")>>, <<"job_title", Str("CTO")>>,
           <<"confidence", Str("High")>> >>)
RecAlias == Obj(<< <<"full_name", Str("A")>>, <<"organization", Str("B")>> >>)
RecPartial ==
    Obj(<< <<"company", Str("Beta")>>, <<"sector", Str("IoT")>>,
           <<"confidence_level", Str("low")>>, <<"role", Str("Owner")>> >>)
RecTyped ==
    Obj(<< <<"name", Null>>, <<"person_name", Str("Ann")>>, <<"revenue", Num(45)>>,
           <<"decision_maker", Bool(TRUE)>>, <<"title", Arr(<<Str("VP"), Null, Tenths(25)>>)>>,
           <<"confidence", Null>>, <<"confidenceLevel", Obj(<<>>)>> >>)
\* A record that carries two or three aliases of every field, the later
\* alias standing first.
RecBoth ==
    Obj(<< <<"full_name", Str("Late")>>, <<"contact_name", Str("Con")>>,
           <<"person_name", Str("Per")>>, <<"organization", Str("Org")>>,
           <<"company", Str("Co")>>, <<"annual_revenue", Num(9)>>,
           <<"company_revenue", Num(8)>>, <<"revenue", Null>>,
           <<"company_sector", Str("Agri")>>, <<"industry", Str("Food")>>,
           <<"decisionMaker", Str("no")>>, <<"is_decision_maker", Bool(FALSE)>>,
           <<"jobTitle", Str("Boss")>>, <<"position", Str("Head")>>, <<"role", Str("Lead")>>,
           <<"title", Null>>, <<"confidenceLevel", Str("High")>>,
           <<"confidence_level", Str("Medium")>> >>)
RawRecords == {RecFull, RecAlias, RecPartial, RecTyped, RecBoth, Obj(<<>>), Num(7),
               Str("Jane"), Arr(<<RecFull>>)}

SummaryOne ==
    Obj(<< <<"total_records", Num(1)>>, <<"decision_makers_found", Num(1)>>,
           <<"low_confidence_count", Num(0)>>, <<"high_confidence_rate", Str("100%")>> >>)
FileA == Obj(<< <<"file_url", Str("u/a")>>, <<"name", Str("a.csv")>>, <<"format_type", Str("csv")>> >>)
FileB == Obj(<< <<"file_url", Str("u/b")>>, <<"name", Str("b.csv")>>, <<"format_type", Str("csv")>> >>)

\* An object that carries the records under enriched_data.
Holder(records) == Obj(<< <<"enriched_data", Arr(records)>> >>)
HolderFull(records, sum, files) ==
    Obj(<< <<"note", Str("done")>>, <<"enriched_data", Arr(records)>>,
           <<"summary", sum>>, <<"artifact_files", files>> >>)

\* One more level around v.
WrapKinds == {"result", "text", "payload", "array", "string", "emptySibling", "junkSibling"}
Wrap(kind, v) ==
    CASE kind = "result" -> Obj(<< <<"result", v>> >>)
      [] kind = "text" -> Obj(<< <<"status", Str("ok")>>, <<"text", v>> >>)
      [] kind = "payload" -> Obj(<< <<"payload", v>> >>)
      [] kind = "array" -> Arr(<< Num(7), v >>)
      [] kind = "string" -> JsonStr("Here is the JSON you asked for", FALSE, v)
      [] kind = "emptySibling" -> Obj(<< <<"enriched_data", Arr(<<>>)>>, <<"payload", v>> >>)
      [] kind = "junkSibling" ->
            Obj(<< <<"data", Obj(<< <<"enriched_data", Str("none")>> >>)>>,
                   <<"items", v>> >>)

RECURSIVE WrapAll(_, _)
WrapAll(kinds, v) ==
    IF Len(kinds) = 0 THEN v ELSE Wrap(Head(kinds), WrapAll(Tail(kinds), v))

\* n levels of the same kind around v.
RECURSIVE Nest(_, _, _)
Nest(kind, n, v) == IF n = 0 THEN v ELSE Wrap(kind, Nest(kind, n - 1, v))

SeqsUpTo(S, n) == UNION {[1..k -> S] : k \in 0..n}

Leaves ==
    {Holder(<<RecFull>>), HolderFull(<<RecAlias, RecFull>>, SummaryOne, Arr(<<FileA>>)),
     Arr(<<RecPartial>>), Holder(<<>>), Str("no data found"), Obj(<<>>)}

ShallowInputs == {WrapAll(ks, leaf) : ks \in SeqsUpTo(WrapKinds, MaxWraps), leaf \in Leaves}
DeepInputs ==
    {Nest(kind, n, Holder(<<RecFull>>)) :
        kind \in {"result", "payload", "array", "string"}, n \in (MaxDepth - 2)..MaxNest}
CyclicInputs == {Heap("selfResult"), Heap("selfOther"), Heap("selfArray")}
ExtractInputs == ShallowInputs \cup DeepInputs \cup CyclicInputs
\* The calls followed step by step.
DeepCallInputs ==
    {WrapAll(ks, leaf) : ks \in SeqsUpTo(WrapKinds, MaxWraps - 1), leaf \in Leaves}
    \cup DeepInputs \cup CyclicInputs

\* The record arrays of C3: non-empty, the first element carrying name or
\* company and one of revenue, sector, decision_maker.
RecordArrays ==
    {<<first>> \o rest : first \in {RecFull, RecPartial, RecTyped},
                         rest \in SeqsUpTo(RawRecords \cup {Null}, MaxRecords - 1)}
\* The three shapes in which an agent hands the records R over; the string of
\* the second shape decodes to an object wrapping R.
ShapesOf(R) ==
    {Obj(<< <<"result", Holder(R)>> >>), Arr(R)}
    \cup {Obj(<< <<"response", JsonStr("Result: {...}", strict, w)>> >>) :
             strict \in BOOLEAN, w \in {Holder(R), Obj(<< <<"result", Holder(R)>> >>)}}
ShapeInputs == UNION {ShapesOf(R) : R \in RecordArrays}

\* Raw records: per canonical field nothing, its last alias as text, or its
\* first alias null and its second alias a number.
Fields == <<"name", "company", "revenue", "sector", "decision_maker", "job_title", "confidence">>
FirstAlias == <<"name", "company", "revenue", "sector", "decision_maker", "job_title", "confidence">>
SecondAlias == <<"person_name", "company_name", "company_revenue", "industry",
                 "is_decision_maker", "title", "confidence_level">>
LastAlias == <<"full_name", "organization", "annual_revenue", "company_sector",
               "decisionMaker", "jobTitle", "confidenceLevel">>
RECURSIVE GenRecord(_, _)
GenRecord(choice, i) ==
    IF i > Len(Fields) THEN <<>>
    ELSE (CASE choice[i] = 0 -> <<>>
            [] choice[i] = 1 -> << <<LastAlias[i], Str("v")>> >>
            [] choice[i] = 2 -> << <<FirstAlias[i], Null>>, <<SecondAlias[i], Tenths(10 * i + 5)>> >>)
         \o GenRecord(choice, i + 1)
RawRecordInputs ==
    RawRecords \cup {Obj(GenRecord(choice, 1)) : choice \in [1..Len(Fields) -> 0..2]}

\* Agent results for the artifact locator: each of the four places holds
\* nothing, an empty array, a file, or something that is no array.
ProbeValues(file) == {Undef, Arr(<<>>), Arr(<<file>>), Str("none")}
FileC == Obj(<< <<"file_url", Str("u/c")>> >>)
FileD == Obj(<< <<"file_url", Str("u/d")>> >>)
\* {module_outputs: {artifact_files: p}}, nothing when p is undefined
Outputs(p) ==
    IF p = Undef THEN <<>>
    ELSE << <<"module_outputs", Obj(<< <<"artifact_files", p>> >>)>> >>
Envelope(p1, p2) ==
    Outputs(p1) \o << <<"response", Obj(<< <<"status", Str("ok")>> >> \o Outputs(p2))>> >>
RawResponses ==
    {Undef, Str("sorry, no JSON here"), JsonStr("true", TRUE, Bool(TRUE))}
    \cup {JsonStr("{...}", strict, Obj(Envelope(p3, p4))) :
             strict \in BOOLEAN, p3 \in ProbeValues(FileC), p4 \in ProbeValues(FileD)}
ArtifactInputs ==
    {Null}
    \cup {Obj(<< <<"success", Bool(TRUE)>> >> \o Envelope(p1, p2)
              \o (IF raw = Undef THEN <<>> ELSE << <<"raw_response", raw>> >>)) :
             p1 \in ProbeValues(FileA), p2 \in ProbeValues(FileB), raw \in RawResponses}

\* Objects that hold records at several places at once, their keys in an
\* order that is not the order of the wrapper keys, and arrays with every
\* kind of first element.
Slot(k, v) == IF v = Undef THEN <<>> ELSE << <<k, v>> >>
RecNameOnly == Obj(<< <<"name", Str("Jane Doe")>>, <<"job_title", Str("CTO")>> >>)
RecRevenueOnly == Obj(<< <<"revenue", Str("$10M")>>, <<"sector", Str("SaaS")>> >>)
PriorityInputs ==
    {Obj(Slot("payload", p) \o Slot("text", t) \o Slot("enriched_data", e)
         \o Slot("summary", s) \o Slot("artifact_files", f) \o Slot("result", r)) :
        p \in {Undef, Holder(<<RecTyped>>)},
        t \in {Undef, Holder(<<RecAlias>>), Str("n/a")},
        e \in {Undef, Arr(<<>>), Arr(<<RecFull>>), Str("none")},
        s \in {Undef, Null, SummaryOne},
        f \in {Undef, Arr(<<FileA>>), Str("none")},
        r \in {Undef, Null, Holder(<<RecPartial>>), Arr(<<RecAlias>>)}}
BareArrays ==
    {Arr(<<>>)}
    \cup {Arr(<<first>> \o rest) :
             first \in {RecFull, RecPartial, RecAlias, RecNameOnly, RecRevenueOnly, Null,
                        Num(7), Str("Jane"), Arr(<<RecFull>>), Holder(<<RecFull>>)},
             rest \in {<<>>, <<RecFull>>, <<Holder(<<RecTyped>>)>>}}

InitExtract ==
    /\ PageInit
    /\ fn = "none"
    /\ arg \in ExtractInputs \cup ShapeInputs \cup RawRecordInputs \cup ArtifactInputs
               \cup PriorityInputs \cup BareArrays
    /\ ret = <<>>
    /\ stack = <<>>

\* Lines 589 and 599-607 on one candidate view
CallExtractNormalize ==
    /\ fn = "none"
    /\ arg \in ShapeInputs
    /\ fn' = "extractNormalize"
    /\ ret' = IF normalizeThrows(deepExtractEnrichedData(arg, 0).enriched) THEN Thrown
              ELSE normalizeEnriched(deepExtractEnrichedData(arg, 0).enriched)
    /\ UNCHANGED <<arg, stack, pageVars>>

CallNormalizeRecord ==
    /\ fn = "none"
    /\ arg \in RawRecordInputs
    /\ fn' = "normalizeRecord"
    /\ ret' = normalizeRecord(arg)
    /\ UNCHANGED <<arg, stack, pageVars>>

CallExtractArtifactFiles ==
    /\ fn = "none"
    /\ arg \in ArtifactInputs
    /\ fn' = "extractArtifactFiles"
    /\ ret' = extractArtifactFiles(arg)
    /\ UNCHANGED <<arg, stack, pageVars>>

CallDeepExtract ==
    /\ fn = "none"
    /\ arg \in ExtractInputs \cup PriorityInputs \cup BareArrays
    /\ fn' = "deepExtractEnrichedData"
    /\ ret' = deepExtractEnrichedData(arg, 0)
    /\ UNCHANGED <<arg, stack, pageVars>>

NextExtract ==
    \/ CallDeepExtract \/ CallExtractNormalize \/ CallNormalizeRecord
    \/ CallExtractArtifactFiles

SpecExtract == InitExtract /\ [][NextExtract]_vars

(***************************************************************************)
(* deepExtractEnrichedData step by step: one frame per call in progress.   *)
(* A frame holds the call's obj and depth, the place the call has reached  *)
(* (enter: line 389; string: line 396; wrapper: the loop of lines 420-425; *)
(* scan: the loop of lines 435-440) and the index of the loop.             *)
(* fn is call while the innermost frame runs, return when a call has just  *)
(* returned ret to the frame below it, done when the first call returned.  *)
(***************************************************************************)
MaxStack == 14

Frame(obj, depth) == [obj |-> obj, depth |-> depth, at |-> "enter", i |-> 0]
Top == stack[Len(stack)]
SetTop(f) == [stack EXCEPT ![Len(stack)] = f]

\* return r
Return(r) ==
    /\ stack' = SubSeq(stack, 1, Len(stack) - 1)
    /\ ret' = r
    /\ fn' = IF Len(stack) = 1 THEN "done" ELSE "return"

\* deepExtractEnrichedData(v, Top.depth + 1), the frame below waiting at place
Recurse(v, place, i) ==
    /\ Len(stack) < MaxStack
    /\ stack' = Append(SetTop([Top EXCEPT !.at = place, !.i = i]), Frame(v, Top.depth + 1))
    /\ fn' = "call"
    /\ ret' = ret

\* The first index from i on of a wrapper key that holds a value, or one past
\* the last.
nextWrapperKey(obj, i) ==
    IF \E j \in i..Len(wrapperKeys) : ~Nullish(Get(obj, wrapperKeys[j]))
    THEN CHOOSE j \in i..Len(wrapperKeys) :
            /\ ~Nullish(Get(obj, wrapperKeys[j]))
            /\ \A k \in i..(j - 1) : Nullish(Get(obj, wrapperKeys[k]))
    ELSE Len(wrapperKeys) + 1

\* The first index from i on of an own key that holds an object, or one past
\* the last.
nextObjectValue(obj, i) ==
    IF \E j \in i..Len(OwnValues(obj)) : IsObject(OwnValues(obj)[j])
    THEN CHOOSE j \in i..Len(OwnValues(obj)) :
            /\ IsObject(OwnValues(obj)[j])
            /\ \A k \in i..(j - 1) : ~IsObject(OwnValues(obj)[k])
    ELSE Len(OwnValues(obj)) + 1

InitDeep ==
    /\ PageInit
    /\ fn = "none"
    /\ arg \in {[obj |-> v, depth |-> d] : v \in DeepCallInputs, d \in {0, MaxDepth + 1}}
    /\ ret = <<>>
    /\ stack = <<>>

\* The caller's call deepExtractEnrichedData(obj, depth)
DeepCall ==
    /\ fn = "none"
    /\ stack' = <<Frame(arg.obj, arg.depth)>>
    /\ fn' = "call"
    /\ UNCHANGED <<arg, ret, pageVars>>

\* Lines 389-416
DeepEnter ==
    /\ fn = "call" /\ Top.at = "enter"
    /\ LET obj == Top.obj IN
       IF Falsy(obj) \/ tooDeep(Top.depth) THEN Return(EmptyResult)
       ELSE IF obj.t = "str"
            THEN IF parseLLMJson(obj) # Thrown /\ ~Falsy(parseLLMJson(obj))
                    /\ IsObject(parseLLMJson(obj))
                 THEN Recurse(parseLLMJson(obj), "string", 0)
                 ELSE Return(EmptyResult)
       ELSE IF ~IsObject(obj) THEN Return(EmptyResult)
       ELSE IF hasEnrichedData(obj) THEN Return(directMatch(obj))
       ELSE IF looksLikeRecords(obj)
            THEN Return([enriched |-> obj.el, summary |-> Null, artifacts |-> <<>>])
       ELSE /\ stack' = SetTop([Top EXCEPT !.at = "wrapper", !.i = 1])
            /\ UNCHANGED <<fn, ret>>
    /\ UNCHANGED <<arg, pageVars>>

\* Lines 420-432: on to the next wrapper key that holds a value; after the
\* last, the check of the own key enriched_data.
DeepWrapperKeys ==
    /\ fn = "call" /\ Top.at = "wrapper"
    /\ LET obj == Top.obj
           j == nextWrapperKey(obj, Top.i)
       IN IF j <= Len(wrapperKeys) THEN Recurse(Get(obj, wrapperKeys[j]), "wrapper", j)
          ELSE IF hasEnrichedDataKey(obj)
               THEN Return([enriched |-> Get(obj, "enriched_data").el,
                            summary |-> Coalesce(Get(obj, "summary"), Null),
                            artifacts |-> <<>>])
          ELSE /\ stack' = SetTop([Top EXCEPT !.at = "scan", !.i = 1])
               /\ UNCHANGED <<fn, ret>>
    /\ UNCHANGED <<arg, pageVars>>

\* Lines 435-442: on to the next own key that holds an object.
DeepScanValues ==
    /\ fn = "call" /\ Top.at = "scan"
    /\ LET obj == Top.obj
           j == nextObjectValue(obj, Top.i)
       IN IF j <= Len(OwnValues(obj)) THEN Recurse(OwnValues(obj)[j], "scan", j)
          ELSE Return(EmptyResult)
    /\ UNCHANGED <<arg, pageVars>>

\* A recursive call has returned ret: lines 396, 423 and 438.
DeepResume ==
    /\ fn = "return"
    /\ IF Top.at = "string" \/ Len(ret.enriched) > 0 THEN Return(ret)
       ELSE /\ stack' = SetTop([Top EXCEPT !.i = Top.i + 1])
            /\ fn' = "call"
            /\ ret' = ret
    /\ UNCHANGED <<arg, pageVars>>

NextDeep == DeepCall \/ DeepEnter \/ DeepWrapperKeys \/ DeepScanValues \/ DeepResume

\* The interpreter runs a started call on: a step that can be taken is taken.
SpecDeep == InitDeep /\ [][NextDeep]_vars /\ WF_vars(NextDeep)

(***************************************************************************)
(* C1: extraction finds the enrichment array wherever it lies              *)
(***************************************************************************)
\* The values one level below v: the values of an object's keys, the elements
\* of an array, the value a string decodes to.
ChildrenOf(v) ==
    CASE v.t = "obj" -> {Deref(v.kv[i][2]) : i \in 1..Len(v.kv)}
      [] v.t = "arr" -> {Deref(v.el[i]) : i \in 1..Len(v.el)}
      [] v.t = "str" -> IF "json" \in DOMAIN v THEN {v.json} ELSE {}
      [] OTHER -> {}

\* v carries a non-empty array under the key enriched_data.
Carries(v) ==
    /\ v.t = "obj" /\ HasKey(v.kv, "enriched_data")
    /\ Get(v, "enriched_data").t = "arr" /\ Len(Get(v, "enriched_data").el) > 0

\* Some object at most levels nested levels below v carries the array.
RECURSIVE CarrierWithin(_, _)
CarrierWithin(v, levels) ==
    \/ Carries(v)
    \/ levels > 0 /\ \E c \in ChildrenOf(v) : CarrierWithin(c, levels - 1)

\* C1: deepExtractEnrichedData(v, 0) returns a non-empty enriched set for every
\* value v in which an object reachable through at most 10 nested levels
\* carries a non-empty array under enriched_data.
C1_FindsAnywhere ==
    (fn = "deepExtractEnrichedData" /\ CarrierWithin(arg, 10)) => Len(ret.enriched) > 0

(***************************************************************************)
(* C2: the recursion ends, and nothing is found deeper than depth 10       *)
(***************************************************************************)
\* v is what extraction takes for an enrichment array or its carrier.
LooksEnriched(v) ==
    \/ Carries(v)
    \/ /\ v.t = "arr" /\ Len(v.el) > 0 /\ Deref(v.el[1]).t = "obj"
       /\ \E k \in {"name", "company"} : HasKey(Deref(v.el[1]).kv, k)
       /\ \E k \in {"revenue", "sector", "decision_maker"} : HasKey(Deref(v.el[1]).kv, k)

\* An enrichment array lies at most levels nested levels below v.
RECURSIVE EnrichmentWithin(_, _)
EnrichmentWithin(v, levels) ==
    /\ levels >= 0
    /\ \/ LooksEnriched(v)
       \/ \E c \in ChildrenOf(v) : EnrichmentWithin(c, levels - 1)

\* C2: deepExtractEnrichedData terminates on every input, a self-referential
\* object and an object nested 15 levels deep included, with never more than
\* 12 calls in progress; a call with depth > 10 returns the empty result,
\* and the enriched set is empty when every enrichment array lies at a call
\* depth above 10.
C2_Terminates ==
    /\ <>(fn = "done")
    /\ [](Len(stack) <= MaxDepth + 2)
    /\ [](fn = "done" =>
            /\ arg.depth > MaxDepth => ret = EmptyResult
            /\ ~EnrichmentWithin(arg.obj, MaxDepth - arg.depth) => Len(ret.enriched) = 0)

\* The call on the self-referential object has returned, empty.
C2_Witness ==
    /\ fn = "done" /\ arg = [obj |-> Heap("selfResult"), depth |-> 0]
    /\ ret = EmptyResult

\* A lemma: the steps compute what the recursive definition computes.
DeepStepsAgree ==
    fn = "done" => ret = deepExtractEnrichedData(arg.obj, arg.depth)

(***************************************************************************)
(* C3: the three shapes of a response give the same normalized records     *)
(***************************************************************************)
\* C3: for a record array R (non-empty, first element carrying name or
\* company and one of revenue, sector, decision_maker), extraction followed
\* by normalization gives the same normalized sequence, the normalization of
\* R itself, for {result: {enriched_data: R}}, for {response: S} with S a
\* string decoding to an object wrapping R, and for R as a bare array.
C3_SameForThreeShapes ==
    fn = "extractNormalize" =>
        \A R \in RecordArrays :
            arg \in ShapesOf(R) =>
                ret = IF \E i \in 1..Len(R) : R[i] = Null THEN Thrown
                      ELSE [i \in 1..Len(R) |-> normalizeRecord(R[i])]

\* The bare array of one partial record has been extracted and normalized.
C3_Witness ==
    /\ fn = "extractNormalize" /\ arg = Arr(<<RecPartial>>)
    /\ Len(ret) = 1 /\ ret[1].company = "Beta" /\ ret[1].name = ""

(***************************************************************************)
(* C4: every normalized field is a string, with the field's default        *)
(***************************************************************************)
\* The accepted aliases of a canonical field, in order.
AliasesOf(field) ==
    CASE field = "name" -> <<"name", "person_name", "contact_name", "full_name">>
      [] field = "company" -> <<"company", "company_name", "organization">>
      [] field = "revenue" -> <<"revenue", "company_revenue", "annual_revenue">>
      [] field = "sector" -> <<"sector", "industry", "company_sector">>
      [] field = "decision_maker" -> <<"decision_maker", "is_decision_maker", "decisionMaker">>
      [] field = "job_title" -> <<"job_title", "title", "role", "position", "jobTitle">>
      [] field = "confidence" -> <<"confidence", "confidence_level", "confidenceLevel">>

\* No alias of field is present and non-null in the raw record r.
NoAlias(r, field) ==
    \A i \in 1..Len(AliasesOf(field)) :
        ~(r.t = "obj" /\ HasKey(r.kv, AliasesOf(field)[i])
          /\ ~(r.kv[KeyIndex(r.kv, AliasesOf(field)[i])][2].t \in {"null", "undef"}))

FieldSet == {Fields[i] : i \in 1..Len(Fields)}

\* C4 as claimed: all seven fields are strings, and a field without alias
\* holds "N/A", confidence "Low".
C4_AllDefaultNA ==
    fn = "normalizeRecord" =>
        /\ DOMAIN ret = FieldSet
        /\ \A f \in FieldSet :
              /\ ret[f] \in STRING
              /\ NoAlias(arg, f) => ret[f] = IF f = "confidence" THEN "Low" ELSE "N/A"

\* C4 as amended: all seven fields are strings, and a field without alias
\* holds "N/A", except confidence, which holds "Low", and name and company,
\* which hold the empty string.
C4_Defaults ==
    fn = "normalizeRecord" =>
        /\ DOMAIN ret = FieldSet
        /\ \A f \in FieldSet :
              /\ ret[f] \in STRING
              /\ NoAlias(arg, f) =>
                    ret[f] = CASE f = "confidence" -> "Low"
                               [] f \in {"name", "company"} -> ""
                               [] OTHER -> "N/A"

\* A raw record without any alias has been normalized.
C4_Witness ==
    /\ fn = "normalizeRecord" /\ arg = Obj(<<>>)
    /\ ret.revenue = "N/A" /\ ret.confidence = "Low" /\ ret.name = ""

(***************************************************************************)
(* C7: the artifact locator                                                *)
(***************************************************************************)
\* The four places probed, in order; the raw response is decoded by
\* JSON.parse.
ProbeAt(result, n) ==
    LET raw == IF Get(result, "raw_response").t = "str"
                  /\ JSONparse(Get(result, "raw_response")) # Thrown
               THEN JSONparse(Get(result, "raw_response")) ELSE Undef
    IN CASE n = 1 -> artifactFilesAt(result)
         [] n = 2 -> artifactFilesAt(Get(result, "response"))
         [] n = 3 -> artifactFilesAt(raw)
         [] n = 4 -> artifactFilesAt(GetOpt(raw, "response"))
NonEmptyArray(v) == v.t = "arr" /\ Len(v.el) > 0

\* C7: extractArtifactFiles returns the first non-empty artifact_files array
\* among the four probes, and the empty sequence only when none of the four
\* is a non-empty array.
C7_FirstNonEmptyProbe ==
    (fn = "extractArtifactFiles" /\ arg # Null) =>
        IF \E n \in 1..4 : NonEmptyArray(ProbeAt(arg, n))
        THEN LET n == CHOOSE n \in 1..4 :
                        /\ NonEmptyArray(ProbeAt(arg, n))
                        /\ \A k \in 1..(n - 1) : ~NonEmptyArray(ProbeAt(arg, k))
             IN ret = ProbeAt(arg, n).el
        ELSE ret = <<>>

(***************************************************************************)
(* C8, C9: the CSV parser                                                  *)
(***************************************************************************)
\* The data lines of a text: its non-blank lines after the header line.
DataLines(text) == SubSeq(nonBlankLines(text), 2, Len(nonBlankLines(text)))

\* A data line whose resolved name and resolved company are both empty.
BothEmpty(headers, line) ==
    /\ resolvedName(headers, parseCSVLine(line)) = ""
    /\ resolvedCompany(headers, parseCSVLine(line)) = ""

\* C8: parseCSV returns one row per non-blank data line, less the data lines
\* whose resolved name and resolved company are both empty after trimming, in
\* input order; a text with fewer than 2 non-blank lines gives no row.
C8_RowCount ==
    fn = "parseCSV" =>
        IF Len(nonBlankLines(arg)) < 2 THEN ret = <<>>
        ELSE LET headers == parseHeaders(nonBlankLines(arg)[1])
                 data == DataLines(arg)
                 dropped == SelectSeq(data, LAMBDA l : BothEmpty(headers, l))
                 kept == SelectSeq(data, LAMBDA l : ~BothEmpty(headers, l))
             IN /\ Len(ret) = Len(data) - Len(dropped)
                /\ \A i \in 1..Len(kept) :
                      i <= Len(ret) /\ ret[i] = buildRow(headers, parseCSVLine(kept[i]))

\* The number of quote characters of line before position i.
QuotesBefore(line, i) == Cardinality({j \in 1..(i - 1) : CharAt(line, j) = "\""})

\* The commas met in the unquoted state: an even number of quotes precedes.
UnquotedCommas(line) ==
    {i \in 1..Len(line) : CharAt(line, i) = "," /\ QuotesBefore(line, i) % 2 = 0}

\* The length of the run of quote characters of s that starts at i.
RECURSIVE QuoteRun(_, _)
QuoteRun(s, i) ==
    IF i <= Len(s) /\ CharAt(s, i) = "\"" THEN 1 + QuoteRun(s, i + 1) ELSE 0

RECURSIVE Quotes(_)
Quotes(n) == IF n = 0 THEN "" ELSE "\"" \o Quotes(n - 1)

\* The field a segment between two unquoted commas stands for: of a run of k
\* quotes, the one that opens a span (when the run starts outside a span) and
\* the one that closes it (when a single quote is left) are dropped, and each
\* pair inside the span is one literal quote.
RECURSIVE ExpectedField(_, _, _)
ExpectedField(seg, i, q) ==
    IF i > Len(seg) THEN ""
    ELSE IF CharAt(seg, i) # "\"" THEN CharAt(seg, i) \o ExpectedField(seg, i + 1, q)
    ELSE LET k == QuoteRun(seg, i)
             inSpan == k - (IF q % 2 = 0 THEN 1 ELSE 0)
         IN Quotes(inSpan \div 2) \o ExpectedField(seg, i + k, q + k)

\* The k-th segment of line (k from 1) between its unquoted commas.
Segment(line, k) ==
    LET cuts == UnquotedCommas(line)
        Cut(n) == IF n = 0 THEN 0
                  ELSE IF n > Cardinality(cuts) THEN Len(line) + 1
                  ELSE CHOOSE c \in cuts : Cardinality({d \in cuts : d < c}) = n - 1
    IN SubSeq(line, Cut(k - 1) + 1, Cut(k) - 1)

\* C9: parseCSVLine splits a line only at the commas met in the unquoted state,
\* returns (number of unquoted commas + 1) fields, drops the quotes that open
\* and close a span and turns a doubled quote inside a span into one quote; the
\* line "Acme, Inc.""Global""" is the single field Acme, Inc."Global".
C9_QuotedSplit ==
    fn = "parseCSVLine" =>
        /\ Len(ret) = Cardinality(UnquotedCommas(arg)) + 1
        /\ \A k \in 1..Len(ret) : ret[k] = ExpectedField(Segment(arg, k), 1, 0)
        /\ arg = QuotedExample => ret = <<"Acme, Inc.\"Global\"">>

\* The example line has been split.
C9_Witness ==
    fn = "parseCSVLine" /\ arg = QuotedExample /\ ret = <<"Acme, Inc.\"Global\"">>

\* A lemma: apart from headers spelled exactly name or company (which the
\* verbatim copy of lines 97-101 writes over the resolved fields), C8 holds.
RowCountUnlessOverwritten ==
    (fn = "parseCSV" /\ Len(nonBlankLines(arg)) >= 1
        /\ \A i \in 1..Len(parseHeaders(nonBlankLines(arg)[1])) :
              parseHeaders(nonBlankLines(arg)[1])[i] \notin {"name", "company"})
    => C8_RowCount

(***************************************************************************)
(* The Page component: files, the sample switch and the enrichment run     *)
(***************************************************************************)
MANAGER_AGENT_ID == "69a027495f1c147fcddc9b20"
ACCEPTED_EXTENSIONS == <<".csv", ".xlsx", ".xls">>
MaxFileSize == 10 * 1024 * 1024

ParsedRow(name, company) == << <<"name", name>>, <<"company", company>> >>
SAMPLE_PREVIEW_ROWS ==
    << ParsedRow("Sarah Chen", "TechFlow Inc"),
       ParsedRow("Marcus Johnson", "DataVault Systems"),
       ParsedRow("Elena Rodriguez", "CloudBridge Solutions"),
       ParsedRow("James Park", "NexGen Analytics"),
       ParsedRow("Priya Sharma", "InnoWave Corp") >>

EnrichedRecord(name, company, revenue, sector, decision_maker, job_title, confidence) ==
    [name |-> name, company |-> company, revenue |-> revenue, sector |-> sector,
     decision_maker |-> decision_maker, job_title |-> job_title,
     confidence |-> confidence]
SAMPLE_ENRICHED ==
    << EnrichedRecord("Sarah Chen", "TechFlow Inc", "$45M", "Enterprise SaaS", "Yes",
                      "VP of Engineering", "High"),
       EnrichedRecord("Marcus Johnson", "DataVault Systems", "$120M",
                      "Data Infrastructure", "Yes", "CTO", "High"),
       EnrichedRecord("Elena Rodriguez", "CloudBridge Solutions", "$28M",
                      "Cloud Computing", "No", "Senior Developer", "Low"),
       EnrichedRecord("James Park", "NexGen Analytics", "$75M", "Business Intelligence",
                      "Yes", "Director of Product", "High"),
       EnrichedRecord("Priya Sharma", "InnoWave Corp", "$15M", "IoT Solutions", "No",
                      "Data Analyst", "Low") >>
SAMPLE_SUMMARY ==
    [total_records |-> Num(5), decision_makers_found |-> Num(3),
     low_confidence_count |-> Num(2), high_confidence_rate |-> "60%"]

\* A File of the browser: its name, its size in bytes and the text it holds.
File(name, size, text) == [t |-> "file", name |-> name, size |-> size, text |-> text]

endsWith(s, suffix) ==
    Len(s) >= Len(suffix) /\ SubSeq(s, Len(s) - Len(suffix) + 1, Len(s)) = suffix

\* Lines 310-323: the error validateFile sets, null when it accepts the file.
validateFile(file) ==
    IF ~\E i \in 1..Len(ACCEPTED_EXTENSIONS) :
          endsWith(toLowerCase(file.name), ACCEPTED_EXTENSIONS[i])
    THEN Str("Invalid file format. Please upload a .csv, .xlsx, or .xls file.")
    ELSE IF file.size > MaxFileSize
    THEN Str("File too large. Maximum size is 10MB.")
    ELSE Null

isCsv(file) == endsWith(toLowerCase(file.name), ".csv")

\* rows.slice(0, n)
slice(rows, n) == SubSeq(rows, 1, IF Len(rows) < n THEN Len(rows) ELSE n)

RemoveAt(seq, i) == SubSeq(seq, 1, i - 1) \o SubSeq(seq, i + 1, Len(seq))

\* The files a user picks or drops, and the number of FileReaders that may
\* be waiting at once.
MaxReaders == 1
FileLeads == File("Leads.CSV", 31, "name,company\nAda,Acme\nBob,Bolt")
FileNoRows == File("empty.csv", 13, "name,company\n")
FileBook == File("book.xlsx", 4096, "")
FileNotes == File("notes.txt", 12, "Ada at Acme")
FileHuge == File("huge.csv", MaxFileSize + 1, "name,company\nAda,Acme")
Files == {FileLeads, FileNoRows, FileBook, FileNotes, FileHuge}

uploadVars == <<selectedFile, previewRows, totalRowCount, fileError, readers>>
resultVars == <<enrichedData, summary, artifactFiles, rawResponseText>>
queryVars == <<filterMode, sortField, sortDir>>
runVars == <<loading, activeAgentId, pc, run>>

\* Lines 325-355 (handleFileSelect and handleDrop, lines 357-367, end here)
processFile(file) ==
    /\ view = "upload" /\ ~loading
    /\ IF validateFile(file) # Null
       THEN /\ fileError' = validateFile(file)
            /\ UNCHANGED <<selectedFile, previewRows, totalRowCount, readers>>
       ELSE /\ selectedFile' = file
            /\ fileError' = Null
            /\ IF isCsv(file)
               THEN /\ Len(readers) < MaxReaders
                    /\ readers' = Append(readers, file)
                    /\ UNCHANGED <<previewRows, totalRowCount>>
               ELSE /\ previewRows' = <<>>
                    /\ totalRowCount' = -1
                    /\ UNCHANGED readers
    /\ UNCHANGED <<view, sampleMode, resultVars, statusMessage, errorMessage,
                   queryVars, runVars, callVars>>

\* Lines 333-346: reader.onload of the i-th waiting FileReader
ReaderLoad(i) ==
    /\ i \in 1..Len(readers)
    /\ readers' = RemoveAt(readers, i)
    /\ LET text == readers[i].text
           rows == parseCSV(text)
       IN IF text = ""
          THEN /\ fileError' = Str("Could not read file contents.")
               /\ UNCHANGED <<previewRows, totalRowCount>>
          ELSE IF Len(rows) = 0
          THEN /\ fileError' = Str("No data rows found. Make sure your CSV has Name and Company columns.")
               /\ UNCHANGED <<previewRows, totalRowCount>>
          ELSE /\ totalRowCount' = Len(rows)
               /\ previewRows' = slice(rows, 10)
               /\ UNCHANGED fileError
    /\ UNCHANGED <<view, sampleMode, selectedFile, resultVars, statusMessage,
                   errorMessage, queryVars, runVars, callVars>>

\* Line 347: reader.onerror
ReaderError(i) ==
    /\ i \in 1..Len(readers)
    /\ readers' = RemoveAt(readers, i)
    /\ fileError' = Str("Error reading file.")
    /\ UNCHANGED <<view, sampleMode, selectedFile, previewRows, totalRowCount,
                   resultVars, statusMessage, errorMessage, queryVars, runVars,
                   callVars>>

\* Lines 379-385; the button stands beside the selected file (line 805).
clearFile ==
    /\ view = "upload" /\ ~loading /\ selectedFile # Null
    /\ selectedFile' = Null
    /\ previewRows' = <<>>
    /\ totalRowCount' = 0
    /\ fileError' = Null
    /\ UNCHANGED <<view, sampleMode, readers, resultVars, statusMessage,
                   errorMessage, queryVars, runVars, callVars>>

\* Line 746: the Sample Data switch of the header
onCheckedChange(checked) ==
    /\ checked = ~sampleMode
    /\ sampleMode' = checked
    /\ IF checked /\ view = "upload"
       THEN previewRows' = SAMPLE_PREVIEW_ROWS /\ totalRowCount' = 5
       ELSE IF ~checked /\ selectedFile = Null
       THEN previewRows' = <<>> /\ totalRowCount' = 0
       ELSE UNCHANGED <<previewRows, totalRowCount>>
    /\ UNCHANGED <<view, selectedFile, fileError, readers, resultVars,
                   statusMessage, errorMessage, queryVars, runVars, callVars>>

\* Lines 758 and 765: the two dismiss buttons
DismissStatus ==
    /\ statusMessage # Null
    /\ statusMessage' = Null
    /\ UNCHANGED <<view, sampleMode, uploadVars, resultVars, errorMessage,
                   queryVars, runVars, callVars>>
DismissError ==
    /\ errorMessage # Null
    /\ errorMessage' = Null
    /\ UNCHANGED <<view, sampleMode, uploadVars, resultVars, statusMessage,
                   queryVars, runVars, callVars>>

(***************************************************************************)
(* handleEnrich (page.tsx 472-646).  run holds what the latest call of     *)
(* handleEnrich captured when it was entered (lines 473-508 read the       *)
(* selectedFile, sampleMode, previewRows and totalRowCount of that         *)
(* render), what its awaited calls returned, and the step it ended at.     *)
(* pc is the await it stands at: timer (483), upload (496), text (511),    *)
(* agent (558), or idle.                                                   *)
(***************************************************************************)
\* Lines 572-584: the candidate views of the agent result, in order.
sourcesOf(result) ==
    << GetOpt(GetOpt(result, "response"), "result"), GetOpt(result, "response"), result >>
    \o (IF ~Falsy(GetOpt(result, "raw_response")) /\ GetOpt(result, "raw_response").t = "str"
           /\ parseLLMJson(GetOpt(result, "raw_response")) # Thrown
           /\ ~Falsy(parseLLMJson(GetOpt(result, "raw_response")))
        THEN << parseLLMJson(GetOpt(result, "raw_response")) >>
        ELSE <<>>)

\* Lines 586-591 without the break of line 590
RECURSIVE extractFromAll(_, _, _)
extractFromAll(sources, i, extracted) ==
    IF i > Len(sources) THEN extracted
    ELSE IF Falsy(sources[i]) THEN extractFromAll(sources, i + 1, extracted)
    ELSE extractFromAll(sources, i + 1, deepExtractEnrichedData(sources[i], 0))

\* Lines 586-591 from sources[i] on; extracted is the latest extraction.
RECURSIVE extractFrom(_, _, _)
extractFrom(sources, i, extracted) ==
    IF i > Len(sources) THEN extracted
    ELSE IF Falsy(sources[i]) THEN extractFrom(sources, i + 1, extracted)
    ELSE IF Len(deepExtractEnrichedData(sources[i], 0).enriched) > 0
    THEN deepExtractEnrichedData(sources[i], 0)
    ELSE extractFrom(sources, i + 1, deepExtractEnrichedData(sources[i], 0))

extractedOf(result) == extractFrom(sourcesOf(result), 1, EmptyResult)

\* Lines 629-631
responseTextOf(result) ==
    LET res == GetOpt(GetOpt(result, "response"), "result")
    IN Coalesce(Coalesce(GetOpt(GetOpt(result, "response"), "message"),
                         IF res.t = "str" THEN res ELSE Str("")),
                IF GetOpt(res, "text").t = "str" THEN GetOpt(res, "text") ELSE Str(""))

\* JSON.stringify(v, null, 2) of a number or a boolean
JSONstringify(v) ==
    CASE v.t = "num" -> tenthsToString(v.tenths)
      [] v.t = "bool" -> IF v.b THEN "true" ELSE "false"

\* 'prefix' + (x.error ?? 'Unknown error')
errorOf(x) == JSString(Coalesce(GetOpt(x, "error"), Str("Unknown error")))

\* Lines 643-644 without the second
endRunAgentKept(ended) ==
    /\ loading' = FALSE
    /\ activeAgentId' = activeAgentId
    /\ pc' = "idle"
    /\ run' = ended

\* Lines 643-644, and the same two lines before each return
endRun(ended) ==
    /\ loading' = FALSE
    /\ activeAgentId' = Null
    /\ pc' = "idle"
    /\ run' = ended

\* Lines 640-641
catch(message) ==
    /\ errorMessage' = Str("An unexpected error occurred: " \o message)
    /\ UNCHANGED <<view, resultVars, statusMessage>>

\* The Enrich button of an upload view rendered whatever loading is
enrichOfferedWhileLoading ==
    /\ view = "upload"
    /\ selectedFile # Null \/ sampleMode

\* Lines 770 and 883: the Enrich button is rendered and enabled.
enrichOffered ==
    /\ view = "upload" /\ ~loading
    /\ selectedFile # Null \/ sampleMode

\* Lines 472-483 and 496: from the click to the first await.  The button is
\* rendered in the upload view while nothing loads (770) and is disabled
\* without a file and without sample mode (883).
handleEnrich ==
    /\ enrichOffered
    /\ loading' = TRUE
    /\ errorMessage' = Null
    /\ statusMessage' = Null
    /\ activeAgentId' = Str(MANAGER_AGENT_ID)
    /\ run' = [sample |-> sampleMode, file |-> selectedFile,
               previewRows |-> previewRows, totalRowCount |-> totalRowCount,
               upload |-> Undef, allRows |-> <<>>, result |-> Undef,
               step |-> "started"]
    /\ pc' = IF sampleMode THEN "timer" ELSE "upload"
    /\ UNCHANGED <<view, sampleMode, uploadVars, resultVars, queryVars, callVars>>

\* Lines 484-491
SampleTimer ==
    /\ pc = "timer"
    /\ enrichedData' = SAMPLE_ENRICHED
    /\ summary' = SAMPLE_SUMMARY
    /\ artifactFiles' = <<>>
    /\ statusMessage' = Str("Sample enrichment complete.")
    /\ view' = "results"
    /\ endRun([run EXCEPT !.step = "sample"])
    /\ UNCHANGED <<sampleMode, uploadVars, rawResponseText, errorMessage, queryVars,
                   callVars>>

\* Line 497 without its last test
uploadFailedUnlessIds(u) ==
    \/ Falsy(Get(u, "success"))
    \/ ~IsArray(Get(u, "asset_ids"))

\* Line 497
uploadFailed(u) ==
    \/ Falsy(Get(u, "success"))
    \/ ~IsArray(Get(u, "asset_ids"))
    \/ Len(Get(u, "asset_ids").el) = 0

\* Lines 496-515 up to the next await: uploadFiles has resolved with u.
UploadResolve(u) ==
    /\ pc = "upload"
    /\ IF uploadFailed(u)
       THEN /\ errorMessage' = Str("File upload failed: " \o errorOf(u))
            /\ endRun([run EXCEPT !.upload = u, !.step = "uploadFailed"])
       ELSE /\ pc' = IF isCsv(run.file) THEN "text" ELSE "agent"
            /\ run' = [run EXCEPT !.upload = u, !.allRows = run.previewRows]
            /\ UNCHANGED <<loading, activeAgentId, errorMessage>>
    /\ UNCHANGED <<view, sampleMode, uploadVars, resultVars, statusMessage,
                   queryVars, callVars>>

\* Lines 511-514 and 547-558: selectedFile.text() has resolved.
TextResolve ==
    /\ pc = "text"
    /\ pc' = "agent"
    /\ run' = [run EXCEPT !.allRows = IF Len(parseCSV(run.file.text)) > 0
                                      THEN parseCSV(run.file.text)
                                      ELSE run.previewRows]
    /\ UNCHANGED <<view, sampleMode, uploadVars, resultVars, statusMessage,
                   errorMessage, loading, activeAgentId, queryVars, callVars>>

\* Line 514: selectedFile.text() has rejected.
TextReject ==
    /\ pc = "text"
    /\ pc' = "agent"
    /\ UNCHANGED <<view, sampleMode, uploadVars, resultVars, statusMessage,
                   errorMessage, loading, activeAgentId, run, queryVars, callVars>>

\* Lines 640-645: an awaited call (uploadFiles, callAIAgent) has rejected.
CallReject ==
    /\ pc \in {"upload", "agent"}
    /\ catch("Failed to fetch")
    /\ endRun([run EXCEPT !.step = "caught"])
    /\ UNCHANGED <<sampleMode, uploadVars, queryVars, callVars>>

\* Lines 563-645: callAIAgent has resolved with result.
AgentResolve(result) ==
    /\ pc = "agent"
    /\ LET extracted == extractedOf(result)
           normalizedEnriched == normalizeEnriched(extracted.enriched)
           responseText == responseTextOf(result)
           ended(step) == [run EXCEPT !.result = result, !.step = step]
       IN IF Falsy(Get(result, "success"))
          THEN /\ errorMessage' = Str("Enrichment failed: " \o errorOf(result))
               /\ endRun(ended("agentFailed"))
               /\ UNCHANGED <<view, resultVars, statusMessage>>
          ELSE IF normalizeThrows(extracted.enriched)
          THEN /\ catch("Cannot read properties of null (reading 'name')")
               /\ endRun(ended("caught"))
          ELSE /\ enrichedData' = normalizedEnriched
               /\ summary' = buildSummary(extracted.summary, normalizedEnriched)
               /\ artifactFiles' = extractArtifactFiles(result)
               /\ IF Len(normalizedEnriched) > 0
                  THEN /\ statusMessage' =
                             Str("Successfully enriched "
                                 \o natToString(Len(normalizedEnriched)) \o " records.")
                       /\ view' = "results"
                       /\ endRun(ended("enriched"))
                       /\ UNCHANGED <<rawResponseText, errorMessage>>
                  ELSE IF ~Falsy(responseText)
                  THEN /\ statusMessage' = Str("Agent responded but could not parse structured enrichment data. Check the response below.")
                       /\ rawResponseText' = IF responseText.t = "str"
                                             THEN Str(responseText.s)
                                             ELSE Str(JSONstringify(responseText))
                       /\ view' = "results"
                       /\ endRun(ended("rawText"))
                       /\ UNCHANGED errorMessage
                  ELSE /\ errorMessage' = Str("No enrichment data was returned. The agent may not have processed the file correctly. Please try again.")
                       /\ endRun(ended("noData"))
                       /\ UNCHANGED <<view, rawResponseText, statusMessage>>
    /\ UNCHANGED <<sampleMode, uploadVars, queryVars, callVars>>

(***************************************************************************)
(* The filter and sort engine (page.tsx 649-674)                           *)
(***************************************************************************)
FilterModes == {"all", "low_confidence", "decision_makers"}
SortFields == {"name", "company", "revenue", "sector", "confidence", "job_title",
               "decision_maker"}

\* a < b of two strings: by UTF-16 code units, a proper prefix first.
RECURSIVE lessThan(_, _)
lessThan(a, b) ==
    IF Len(b) = 0 THEN FALSE
    ELSE IF Len(a) = 0 THEN TRUE
    ELSE IF CharAt(a, 1) = CharAt(b, 1) THEN lessThan(Tail(a), Tail(b))
    ELSE Code(CharAt(a, 1)) < Code(CharAt(b, 1))

\* Lines 652-656: the test of the filter mode
passesFilter(r, mode) ==
    CASE mode = "low_confidence" -> includes(toLowerCase(r.confidence), "low")
      [] mode = "decision_makers" -> includes(toLowerCase(r.decision_maker), "yes")
      [] OTHER -> TRUE

\* Lines 658-659: (r[field] ?? '').toString().toLowerCase()
sortKeyCaseSensitive(r, field) == r[field]
sortKey(r, field) == toLowerCase(r[field])

\* Lines 657-663: the comparator
compare(a, b, field, dir) ==
    IF lessThan(sortKey(a, field), sortKey(b, field))
    THEN (IF dir = "asc" THEN -1 ELSE 1)
    ELSE IF lessThan(sortKey(b, field), sortKey(a, field))
    THEN (IF dir = "asc" THEN 1 ELSE -1)
    ELSE 0

\* A sort that is not stable: x goes before the elements it compares equal to.
RECURSIVE insertBeforeEquals(_, _, _, _)
insertBeforeEquals(sorted, x, field, dir) ==
    IF Len(sorted) = 0 THEN <<x>>
    ELSE IF compare(sorted[Len(sorted)], x, field, dir) >= 0
    THEN Append(insertBeforeEquals(SubSeq(sorted, 1, Len(sorted) - 1), x, field, dir),
                sorted[Len(sorted)])
    ELSE Append(sorted, x)

\* Array.prototype.sort is stable: x goes behind every element that does not
\* compare greater than it.
RECURSIVE insertSorted(_, _, _, _), sort(_, _, _)
insertSorted(sorted, x, field, dir) ==
    IF Len(sorted) = 0 THEN <<x>>
    ELSE IF compare(sorted[Len(sorted)], x, field, dir) > 0
    THEN Append(insertSorted(SubSeq(sorted, 1, Len(sorted) - 1), x, field, dir),
                sorted[Len(sorted)])
    ELSE Append(sorted, x)
sort(data, field, dir) ==
    IF Len(data) = 0 THEN <<>>
    ELSE insertSorted(sort(SubSeq(data, 1, Len(data) - 1), field, dir),
                      data[Len(data)], field, dir)

\* Lines 651-664 on a copy of data
filterAndSort(data, mode, field, dir) ==
    sort(SelectSeq(data, LAMBDA r : passesFilter(r, mode)), field, dir)

\* Line 650: the collection the table is made from
tableData ==
    IF sampleMode /\ view = "results" /\ Len(enrichedData) = 0
    THEN SAMPLE_ENRICHED ELSE enrichedData

\* Lines 649-665 (line 721 calls it at every render)
getFilteredData == filterAndSort(tableData, filterMode, sortField, sortDir)

\* Lines 935-937: the filter buttons of the results view
setFilterMode(mode) ==
    /\ view = "results" /\ ~loading
    /\ filterMode' = mode
    /\ UNCHANGED <<view, sampleMode, uploadVars, resultVars, statusMessage,
                   errorMessage, sortField, sortDir, runVars, callVars>>

\* Lines 667-674, from the column heads of the results view (965-971)
handleSort(field) ==
    /\ view = "results" /\ ~loading
    /\ IF sortField = field
       THEN sortDir' = (IF sortDir = "asc" THEN "desc" ELSE "asc") /\ UNCHANGED sortField
       ELSE sortField' = field /\ sortDir' = "asc"
    /\ UNCHANGED <<view, sampleMode, uploadVars, resultVars, statusMessage,
                   errorMessage, filterMode, runVars, callVars>>

\* Lines 702-718, from the link at the foot of the results view (1039)
handleNewEnrichment ==
    /\ view = "results" /\ ~loading
    /\ view' = "upload"
    /\ selectedFile' = Null
    /\ previewRows' = <<>>
    /\ totalRowCount' = 0
    /\ fileError' = Null
    /\ enrichedData' = <<>>
    /\ summary' = Null
    /\ artifactFiles' = <<>>
    /\ statusMessage' = Null
    /\ errorMessage' = Null
    /\ rawResponseText' = Null
    /\ filterMode' = "all"
    /\ sortField' = "name"
    /\ sortDir' = "asc"
    /\ UNCHANGED <<sampleMode, readers, runVars, callVars>>

(***************************************************************************)
(* What the outside returns: the results of uploadFiles and of the agent   *)
(***************************************************************************)
MaxRows == 3

UploadResults ==
    {Obj(<< <<"success", Bool(TRUE)>>, <<"asset_ids", Arr(<<Str("asset-1")>>)>> >>),
     Obj(<< <<"success", Bool(TRUE)>>, <<"asset_ids", Arr(<<>>)>> >>),
     Obj(<< <<"success", Bool(TRUE)>> >>),
     Obj(<< <<"success", Bool(FALSE)>>, <<"error", Str("Storage unavailable")>> >>),
     Obj(<< <<"success", Bool(FALSE)>> >>)}

\* A successful agent result whose response holds the given pairs.
Succeeded(response) ==
    Obj(<< <<"success", Bool(TRUE)>>,
           <<"response", Obj(<< <<"status", Str("success")>> >> \o response)>> >>)

\* Records whose keys differ by case only, or not at all.
RowBob ==
    Obj(<< <<"name", Str("bob")>>, <<"company", Str("Acme")>>, <<"revenue", Str("$5M")>>,
           <<"sector", Str("IoT")>>, <<"decision_maker", Str("Yes")>>,
           <<"job_title", Str("CTO")>>, <<"confidence", Str("High")>> >>)
RowBOB ==
    Obj(<< <<"name", Str("Bob")>>, <<"company", Str("acme")>>,
           <<"decision_maker", Str("no")>>, <<"job_title", Str("Clerk")>>,
           <<"confidence", Str("Very Low")>> >>)
RowAlice ==
    Obj(<< <<"name", Str("alice")>>, <<"company", Str("Zeta")>>, <<"revenue", Str("$5M")>>,
           <<"decision_maker", Str("YES")>>, <<"confidence", Str("low")>> >>)
SortResults ==
    {Succeeded(<< <<"result", Holder(rows)>> >>) :
        rows \in SeqsUpTo({RowBob, RowBOB, RowAlice}, MaxRows) \ {<<>>}}

\* The values an agent may put into a field of the summary; undefined stands
\* for a field that is absent.
SummaryValues ==
    {Undef, Null, Num(0), Num(2), Num(7), Num(-3), Tenths(25), Str("7"), Str("many")}
SummaryOf(total, makers, low, rate) ==
    Obj((IF total = Undef THEN <<>> ELSE << <<"total_records", total>> >>)
        \o (IF makers = Undef THEN <<>> ELSE << <<"decision_makers_found", makers>> >>)
        \o (IF low = Undef THEN <<>> ELSE << <<"low_confidence_count", low>> >>)
        \o (IF rate = Undef THEN <<>> ELSE << <<"high_confidence_rate", rate>> >>))
Summaries ==
    {SummaryOf(v, Num(1), Num(1), Str("50%")) : v \in SummaryValues}
    \cup {SummaryOf(Num(2), v, Num(1), Str("50%")) : v \in SummaryValues}
    \cup {SummaryOf(Num(2), Num(1), v, Str("50%")) : v \in SummaryValues}
    \cup {SummaryOf(Num(2), Num(1), Num(1), v) : v \in {Undef, Null, Num(50), Str("")}}
    \cup {Str("two records"), Num(0), Null}
SummaryResults ==
    {Succeeded(<< <<"result", HolderFull(<<RecFull, RecPartial>>, sum, Arr(<<>>))>> >>) :
        sum \in Summaries}

OtherResults ==
    {Obj(<< <<"success", Bool(FALSE)>>, <<"error", Str("Agent timeout")>> >>),
     Obj(<< <<"success", Bool(FALSE)>> >>),
     Succeeded(<<>>),
     Succeeded(<< <<"message", Str("I could not open the file.")>> >>),
     Succeeded(<< <<"message", Num(42)>> >>),
     Succeeded(<< <<"result", Str("No rows found.")>> >>),
     Succeeded(<< <<"result", Obj(<< <<"text", Str("See the attachment.")>> >>)>> >>),
     Succeeded(<< <<"result", Holder(<<RecFull, Null>>)>> >>),
     Succeeded(<< <<"result", Arr(<<RecTyped>>)>> >>),
     Obj(<< <<"success", Bool(TRUE)>>,
            <<"response", Obj(<< <<"status", Str("success")>>,
                                 <<"result", HolderFull(<<RecAlias>>, SummaryOne,
                                                        Arr(<<FileA>>))>> >>)>>,
            <<"module_outputs", Obj(<< <<"artifact_files", Arr(<<FileA, FileB>>)>> >>)>> >>),
     Obj(<< <<"success", Bool(TRUE)>>,
            <<"response", Obj(<< <<"status", Str("success")>> >>)>>,
            <<"raw_response",
              JsonStr("Here you are: {...}", FALSE, Holder(<<RecAlias>>))>> >>)}

AgentResults == OtherResults

Init ==
    /\ PageInit
    /\ fn = "none"
    /\ arg = Null
    /\ ret = Null
    /\ stack = <<>>

Next ==
    \/ \E file \in Files : processFile(file)
    \/ \E i \in 1..MaxReaders : ReaderLoad(i)
    \/ \E i \in 1..MaxReaders : ReaderError(i)
    \/ clearFile
    \/ \E checked \in BOOLEAN : onCheckedChange(checked)
    \/ DismissStatus
    \/ DismissError
    \/ handleEnrich
    \/ SampleTimer
    \/ \E u \in UploadResults : UploadResolve(u)
    \/ TextResolve
    \/ TextReject
    \/ CallReject
    \/ \E result \in AgentResults : AgentResolve(result)
    \/ \E mode \in FilterModes : setFilterMode(mode)
    \/ \E field \in SortFields : handleSort(field)
    \/ handleNewEnrichment

Spec == Init /\ [][Next]_vars

(***************************************************************************)
(* The runs of a user who enriches a spreadsheet or the sample, with every *)
(* summary an agent may supply                                             *)
(***************************************************************************)
NextSummary ==
    \/ processFile(FileBook)
    \/ \E checked \in BOOLEAN : onCheckedChange(checked)
    \/ handleEnrich
    \/ SampleTimer
    \/ \E u \in UploadResults : UploadResolve(u)
    \/ \E result \in SummaryResults : AgentResolve(result)
    \/ handleNewEnrichment

SpecSummary == Init /\ [][NextSummary]_vars

(***************************************************************************)
(* The results view of a user who enriches a spreadsheet or the sample,    *)
(* then filters and sorts                                                  *)
(***************************************************************************)
NextQuery ==
    \/ processFile(FileBook)
    \/ \E checked \in BOOLEAN : onCheckedChange(checked)
    \/ handleEnrich
    \/ SampleTimer
    \/ UploadResolve(Obj(<< <<"success", Bool(TRUE)>>,
                            <<"asset_ids", Arr(<<Str("asset-1")>>)>> >>))
    \/ \E result \in SortResults \cup {Succeeded(<< <<"result", Str("No rows found.")>> >>)} :
          AgentResolve(result)
    \/ \E mode \in FilterModes : setFilterMode(mode)
    \/ \E field \in SortFields : handleSort(field)
    \/ handleNewEnrichment

SpecQuery == Init /\ [][NextQuery]_vars

(***************************************************************************)
(* C5, C6: the summary a run sets                                          *)
(***************************************************************************)
\* The latest run has ended after line 611 (or 485) and its summary stands.
RunSetSummary ==
    /\ pc = "idle" /\ run # Null /\ summary # Null
    /\ run.step \in {"sample", "enriched", "rawText", "noData"}

\* The summary the agent of the latest run put beside its records.
SuppliedSummary == Get(Get(GetOpt(run.result, "response"), "result"), "summary")

\* v is an integer greater than or equal to 0.
IsCount(v) == v.t = "num" /\ v.tenths >= 0 /\ v.tenths % 10 = 0

WellFormedSummary(s) ==
    /\ s.t = "obj"
    /\ IsCount(Get(s, "total_records"))
    /\ IsCount(Get(s, "decision_makers_found"))
    /\ IsCount(Get(s, "low_confidence_count"))
    /\ Get(s, "high_confidence_rate").t = "str"

\* C5: when the agent supplies a summary of three non-negative integers and a
\* string, the summary the run sets equals it field for field, whatever the
\* number of normalized records.
C5_SuppliedSummaryKept ==
    (RunSetSummary /\ WellFormedSummary(SuppliedSummary))
    => summary = [total_records |-> Get(SuppliedSummary, "total_records"),
                  decision_makers_found |-> Get(SuppliedSummary, "decision_makers_found"),
                  low_confidence_count |-> Get(SuppliedSummary, "low_confidence_count"),
                  high_confidence_rate |-> Get(SuppliedSummary, "high_confidence_rate").s]

\* C6: after a run that sets a summary, its three counts are integers greater
\* than or equal to 0.
C6_CountsAreNaturals ==
    RunSetSummary
    => /\ IsCount(summary.total_records)
       /\ IsCount(summary.decision_makers_found)
       /\ IsCount(summary.low_confidence_count)

(***************************************************************************)
(* C10: getFilteredData                                                    *)
(***************************************************************************)
Satisfies(r) ==
    /\ filterMode = "low_confidence" => includes(toLowerCase(r.confidence), "low")
    /\ filterMode = "decision_makers" => includes(toLowerCase(r.decision_maker), "yes")

KeyOf(r) == toLowerCase(r[sortField])

\* In the chosen order, the record of key[j] stands ahead of that of key[i].
Ahead(key, j, i) ==
    \/ sortDir = "asc" /\ lessThan(key[j], key[i])
    \/ sortDir = "desc" /\ lessThan(key[i], key[j])
    \/ key[j] = key[i] /\ j < i

\* getFilteredData holds exactly the records of data that satisfy the filter
\* mode, each at the place its key and its place in data give it.
FilteredSortedFrom(data) ==
    LET kept == {i \in 1..Len(data) : Satisfies(data[i])}
        key == [i \in 1..Len(data) |-> KeyOf(data[i])]
        filtered == getFilteredData
    IN /\ Len(filtered) = Cardinality(kept)
       /\ \A i \in kept :
             filtered[1 + Cardinality({j \in kept : Ahead(key, j, i)})] = data[i]

\* The records the latest run normalized are still enrichedData, in the
\* agent's order, whatever was filtered and sorted since.
EnrichedDataKept ==
    (pc = "idle" /\ run # Null /\ run.step = "enriched" /\ view = "results")
    => enrichedData = normalizeEnriched(extractedOf(run.result).enriched)

\* C10 as stated: getFilteredData returns exactly the records of enrichedData
\* that satisfy the filter mode, ordered by the lower-cased value of the sort
\* field in the chosen direction, records of equal key in their order in
\* enrichedData; enrichedData is left unchanged.
C10_FromEnrichedData == FilteredSortedFrom(enrichedData) /\ EnrichedDataKept

\* C10, amended: the same of the collection the table is made from, which is
\* SAMPLE_ENRICHED while sample mode is on, the results view is shown and
\* enrichedData is empty, and enrichedData otherwise.
C10_FilteredSorted ==
    /\ FilteredSortedFrom(IF sampleMode /\ view = "results" /\ enrichedData = <<>>
                          THEN SAMPLE_ENRICHED ELSE enrichedData)
    /\ EnrichedDataKept

\* A run's three records shown filtered to two of equal key, descending.
C10_Witness ==
    /\ view = "results" /\ pc = "idle" /\ Len(enrichedData) = 3
    /\ filterMode = "low_confidence" /\ sortField = "sector" /\ sortDir = "desc"
    /\ Len(getFilteredData) = 2
    /\ getFilteredData[1] # getFilteredData[2]
    /\ KeyOf(getFilteredData[1]) = KeyOf(getFilteredData[2])

(***************************************************************************)
(* C11: filter plus sort, applied twice                                    *)
(***************************************************************************)
\* C11: applying the same filter and sort to the output of a first
\* application yields the same sequence as the first application.
C11_Idempotent ==
    filterAndSort(getFilteredData, filterMode, sortField, sortDir) = getFilteredData

\* Decision makers by company, descending: a record is filtered out and the
\* others change places.
C11_Witness ==
    /\ view = "results" /\ pc = "idle"
    /\ filterMode = "decision_makers" /\ sortField = "company" /\ sortDir = "desc"
    /\ Len(getFilteredData) >= 2 /\ Len(getFilteredData) < Len(tableData)
    /\ getFilteredData # SelectSeq(tableData, LAMBDA r : passesFilter(r, filterMode))

(***************************************************************************)
(* exportCSV (page.tsx 677-700).  The call is recorded in fn, and the file *)
(* it hands to the browser in ret: null when it returns at line 679.       *)
(***************************************************************************)
\* s as it is: its quotes are not doubled.
keepQuotes(s) == s
\* s.replace(/"/g, '""')
RECURSIVE doubleQuotes(_)
doubleQuotes(s) ==
    IF Len(s) = 0 THEN ""
    ELSE (IF CharAt(s, 1) = "\"" THEN "\"\"" ELSE CharAt(s, 1)) \o doubleQuotes(Tail(s))

\* parts.join(sep)
RECURSIVE join(_, _)
join(parts, sep) ==
    IF Len(parts) = 0 THEN ""
    ELSE IF Len(parts) = 1 THEN parts[1]
    ELSE parts[1] \o sep \o join(Tail(parts), sep)

\* Lines 680-681
exportHeaders ==
    <<"Name", "Company", "Revenue", "Sector", "Decision Maker", "Job Title", "Confidence">>

\* Lines 683-691 without the quotes around each field
exportRowUnquoted(r) ==
    join(<< doubleQuotes(r.name), doubleQuotes(r.company), doubleQuotes(r.revenue),
            doubleQuotes(r.sector), doubleQuotes(r.decision_maker),
            doubleQuotes(r.job_title), doubleQuotes(r.confidence) >>, ",")

\* Lines 683-691: the entry of csvRows made for the record r
exportRow(r) ==
    join(<< "\"" \o doubleQuotes(r.name) \o "\"",
            "\"" \o doubleQuotes(r.company) \o "\"",
            "\"" \o doubleQuotes(r.revenue) \o "\"",
            "\"" \o doubleQuotes(r.sector) \o "\"",
            "\"" \o doubleQuotes(r.decision_maker) \o "\"",
            "\"" \o doubleQuotes(r.job_title) \o "\"",
            "\"" \o doubleQuotes(r.confidence) \o "\"" >>, ",")

\* Lines 681-693: csvRows.join('\n')
exportText(data) ==
    join(<<join(exportHeaders, ",")>> \o [i \in 1..Len(data) |-> exportRow(data[i])], "\n")

\* Lines 677-700, from the Export CSV button of the results view (949)
exportCSV ==
    /\ view = "results" /\ ~loading
    /\ fn' = "exportCSV"
    /\ ret' = IF Len(getFilteredData) = 0 THEN Null
              ELSE [name |-> "enriched_data.csv", type |-> "text/csv;charset=utf-8;",
                    text |-> exportText(getFilteredData)]
    /\ UNCHANGED <<pageVars, arg, stack>>

\* Records whose fields hold quotes, commas and line breaks.
MaxExportRows == 2
RowQuoted ==
    Obj(<< <<"name", Str("A\"J\"")>>, <<"company", Str("X, Inc")>>,
           <<"revenue", Str("\"")>>, <<"decision_maker", Str("Yes")>>,
           <<"confidence", Str("Low")>> >>)
RowBroken ==
    Obj(<< <<"name", Str("bo")>>, <<"company", Str("Y")>>,
           <<"job_title", Str("VP\nSales")>>, <<"decision_maker", Str("no")>>,
           <<"confidence", Str("High")>> >>)
ExportResults ==
    {Succeeded(<< <<"result", Holder(rows)>> >>) :
        rows \in SeqsUpTo({RowQuoted, RowBroken, RowAlice}, MaxExportRows) \ {<<>>}}
    \cup {Succeeded(<< <<"result", Str("No rows found.")>> >>)}

\* A user who enriches a spreadsheet or the sample, filters and sorts, and
\* at last exports.
NextExport ==
    \/ fn = "none" /\ processFile(FileBook)
    \/ fn = "none" /\ \E checked \in BOOLEAN : onCheckedChange(checked)
    \/ fn = "none" /\ handleEnrich
    \/ fn = "none" /\ SampleTimer
    \/ fn = "none" /\ UploadResolve(Obj(<< <<"success", Bool(TRUE)>>,
                                          <<"asset_ids", Arr(<<Str("asset-1")>>)>> >>))
    \/ fn = "none" /\ \E result \in ExportResults : AgentResolve(result)
    \/ fn = "none" /\ \E mode \in FilterModes : setFilterMode(mode)
    \/ fn = "none" /\ \E field \in SortFields : handleSort(field)
    \/ fn = "none" /\ handleNewEnrichment
    \/ fn = "none" /\ exportCSV

SpecExport == Init /\ [][NextExport]_vars

(***************************************************************************)
(* C12: the exported file                                                  *)
(***************************************************************************)
ExportHeader == "Name,Company,Revenue,Sector,Decision Maker,Job Title,Confidence"

\* inner is the text s with every double quote doubled.
RECURSIVE IsDoubled(_, _)
IsDoubled(inner, s) ==
    IF Len(s) = 0 THEN Len(inner) = 0
    ELSE IF CharAt(s, 1) = "\""
    THEN Len(inner) >= 2 /\ SubSeq(inner, 1, 2) = "\"\""
         /\ IsDoubled(SubSeq(inner, 3, Len(inner)), Tail(s))
    ELSE Len(inner) >= 1 /\ CharAt(inner, 1) = CharAt(s, 1)
         /\ IsDoubled(Tail(inner), Tail(s))

\* field is s wrapped in double quotes, its own quotes doubled.
IsQuoted(field, s) ==
    /\ Len(field) >= 2
    /\ CharAt(field, 1) = "\"" /\ CharAt(field, Len(field)) = "\""
    /\ IsDoubled(SubSeq(field, 2, Len(field) - 1), s)

\* The k-th piece of text (k from 1) between the places cuts.
Piece(text, cuts, k) ==
    LET Cut(n) == IF n = 0 THEN 0
                  ELSE IF n > Cardinality(cuts) THEN Len(text) + 1
                  ELSE CHOOSE c \in cuts : Cardinality({d \in cuts : d < c}) = n - 1
    IN SubSeq(text, Cut(k - 1) + 1, Cut(k) - 1)

\* The places of c in text that an even number of quotes precedes.
Unquoted(text, c) ==
    {i \in 1..Len(text) : CharAt(text, i) = c /\ QuotesBefore(text, i) % 2 = 0}

\* line holds the seven fields of r, quoted, with commas between them.
IsRecordLine(line, r) ==
    /\ Cardinality(Unquoted(line, ",")) = 6
    /\ \A k \in 1..7 : IsQuoted(Piece(line, Unquoted(line, ","), k), r[Fields[k]])

\* text is the header and then one piece per record of the view, in view
\* order, the pieces being the ones between the places cuts.
IsExportOf(text, cuts) ==
    /\ Cardinality(cuts) = Len(getFilteredData)
    /\ Piece(text, cuts, 1) = ExportHeader
    /\ \A i \in 1..Len(getFilteredData) :
          IsRecordLine(Piece(text, cuts, i + 1), getFilteredData[i])

\* C12 as stated: no file for a view of zero rows; otherwise one file whose
\* first line is the header, followed by exactly one line per record of the
\* view, in view order, each field in double quotes with its quotes doubled.
C12_OneLinePerRecord ==
    fn = "exportCSV" =>
        IF getFilteredData = <<>> THEN ret = Null
        ELSE ret # Null
             /\ IsExportOf(ret.text, {i \in 1..Len(ret.text) : CharAt(ret.text, i) = "\n"})

\* C12, amended: the records of the file are divided by the line breaks that
\* stand outside the quoted fields; a line break inside a field is written as
\* it is, so that the record takes more than one line.
C12_OneRecordPerRow ==
    fn = "exportCSV" =>
        IF getFilteredData = <<>> THEN ret = Null
        ELSE ret # Null /\ ret.name = "enriched_data.csv"
             /\ IsExportOf(ret.text, Unquoted(ret.text, "\n"))

\* Two records exported, with a quote, a comma and a line break in fields.
C12_Witness ==
    /\ fn = "exportCSV" /\ ret # Null /\ Len(getFilteredData) = 2
    /\ \E i \in 1..2 : includes(getFilteredData[i].name, "\"")
    /\ \E i \in 1..2 : includes(getFilteredData[i].company, ",")
    /\ \E i \in 1..2 : includes(getFilteredData[i].job_title, "\n")

(***************************************************************************)
(* The enrichment run among the user's actions: every action of the page,  *)
(* with three of the files, one of the filter buttons and one of the       *)
(* column heads.                                                           *)
(***************************************************************************)
\* A step of a run in flight: a timer, a call or a read comes back.
RunStep ==
    \/ SampleTimer
    \/ \E u \in UploadResults : UploadResolve(u)
    \/ TextResolve
    \/ TextReject
    \/ CallReject
    \/ \E result \in AgentResults : AgentResolve(result)

RunFiles == {FileLeads, FileBook, FileNotes}

UserStep ==
    \/ \E file \in RunFiles : processFile(file)
    \/ \E i \in 1..MaxReaders : ReaderLoad(i)
    \/ \E i \in 1..MaxReaders : ReaderError(i)
    \/ clearFile
    \/ \E checked \in BOOLEAN : onCheckedChange(checked)
    \/ DismissStatus
    \/ DismissError
    \/ handleEnrich
    \/ setFilterMode("low_confidence")
    \/ handleSort("name")
    \/ handleNewEnrichment

NextRun == UserStep \/ RunStep

SpecRun == Init /\ [][NextRun]_vars

\* The runs alone, with what the page lets the user do while a run is in
\* flight, and the awaited timer and calls coming back: each resolves or
\* rejects.
NextEnds ==
    \/ \E file \in {FileLeads, FileBook} : processFile(file)
    \/ \E i \in 1..MaxReaders : ReaderLoad(i)
    \/ \E checked \in BOOLEAN : onCheckedChange(checked)
    \/ DismissError
    \/ handleEnrich
    \/ handleNewEnrichment
    \/ RunStep

\* Each await of a run comes to an end: the timer fires, the upload and the
\* agent call resolve or reject, the read of the file's text ends (where it
\* resolves the run stands at the agent call as where it rejects, line 514).
AwaitEnds ==
    \/ SampleTimer
    \/ \E u \in UploadResults : UploadResolve(u)
    \/ TextReject
    \/ CallReject
    \/ \E result \in AgentResults : AgentResolve(result)

SpecRunFair == Init /\ [][NextEnds]_vars /\ WF_vars(AwaitEnds)

(***************************************************************************)
(* C13: upload, agent call and extraction follow one another.              *)
(***************************************************************************)
\* The upload answered with success true and at least one asset id.
UploadSucceeded(u) ==
    /\ In("success", u) /\ Get(u, "success") = Bool(TRUE)
    /\ In("asset_ids", u) /\ Get(u, "asset_ids").t = "arr"
    /\ Get(u, "asset_ids").el # <<>>

\* The run stands after its upload: it reads the file or waits for the agent.
AfterUpload == pc \in {"text", "agent"}

\* The agent answered the run the page holds with success true.
AgentSucceeded == run # Null /\ run.result # Undef /\ Get(run.result, "success") = Bool(TRUE)

\* While a run stands after its upload, it is no sample run and its own
\* upload has succeeded; a run that is not there has no agent result unless
\* it went through there.
UploadBeforeAgent ==
    /\ AfterUpload => ~run.sample /\ UploadSucceeded(run.upload)
    /\ run # Null /\ run.result # Undef => ~run.sample /\ UploadSucceeded(run.upload)
    /\ run # Null /\ run.step = "uploadFailed" =>
           ~UploadSucceeded(run.upload) /\ run.result = Undef

\* A step that ends the upload without success sets the upload error and
\* ends the run; the upload is awaited only by a run that has just started.
UploadFailsFast ==
    /\ pc = "upload" /\ run'.upload # Undef /\ ~UploadSucceeded(run'.upload) =>
           /\ errorMessage' = Str("File upload failed: " \o errorOf(run'.upload))
           /\ pc' = "idle" /\ ~loading'
           /\ UNCHANGED <<view, resultVars>>
    /\ pc' = "upload" /\ pc # "upload" =>
           pc = "idle" /\ run'.upload = Undef /\ run'.step = "started"
    /\ pc' = "agent" /\ pc # "agent" => pc \in {"upload", "text"}

\* A step that changes the results is the sample timer, the reset of Start
\* New Enrichment, or the answer of an agent that succeeded; a step in which
\* the agent answers without success sets the agent error and no result.
ExtractAfterAgent ==
    /\ resultVars' # resultVars =>
           \/ pc = "timer"
           \/ pc = "idle" /\ view = "results" /\ view' = "upload"
           \/ pc = "agent" /\ AgentSucceeded'
    /\ pc = "agent" /\ run'.result # Undef /\ ~AgentSucceeded' =>
           /\ errorMessage' = Str("Enrichment failed: " \o errorOf(run'.result))
           /\ pc' = "idle" /\ ~loading'
           /\ UNCHANGED <<view, resultVars>>

\* C13: in every non-sample run the agent is invoked only after the upload of
\* that run has resolved with success true and a non-empty asset_ids list; a
\* failed upload sets errorMessage, invokes no agent and is not repeated;
\* extraction and normalization start only after the agent has resolved with
\* success true, and an agent failure sets errorMessage and leaves
\* enrichedData as it was.
C13_UploadThenAgent ==
    /\ []UploadBeforeAgent
    /\ [][UploadFailsFast /\ ExtractAfterAgent]_vars

\* The agent has been invoked after a successful upload and has failed.
C13_Witness ==
    /\ run # Null /\ run.step = "agentFailed" /\ pc = "idle"
    /\ UploadSucceeded(run.upload)
    /\ errorMessage = Str("Enrichment failed: Agent timeout")

(***************************************************************************)
(* C14: the raw text of an answer without records                          *)
(***************************************************************************)
\* No view of the result yields a record.
NoRecordIn(result) ==
    \A i \in DOMAIN sourcesOf(result) :
        \/ Falsy(sourcesOf(result)[i])
        \/ deepExtractEnrichedData(sourcesOf(result)[i], 0).enriched = <<>>

\* What response.message, response.result and response.result.text of the
\* result hold, in this order.
TextPlaces(result) ==
    << GetOpt(GetOpt(result, "response"), "message"),
       GetOpt(GetOpt(result, "response"), "result"),
       GetOpt(GetOpt(GetOpt(result, "response"), "result"), "text") >>

\* A text at response.message (or another value there that is not empty), at
\* response.result or at response.result.text.
IsTextAt(result, i) ==
    LET v == TextPlaces(result)[i]
    IN IF i = 1 THEN ~Falsy(v) ELSE v.t = "str" /\ v.s # ""

TextExists(result) == \E i \in 1..3 : IsTextAt(result, i)

\* The text the page shows for a value.
Shown(v) == IF v.t = "str" THEN Str(v.s) ELSE Str(JSONstringify(v))

NoDataError ==
    Str("No enrichment data was returned. The agent may not have processed the file correctly. Please try again.")

\* The agent answers with success true and no view yields a record.
AnswerWithoutRecords ==
    /\ pc = "agent" /\ run'.result # Undef
    /\ Get(run'.result, "success") = Bool(TRUE)
    /\ NoRecordIn(run'.result)

\* C14: when the agent call succeeds and no view yields a record, the run
\* sets the hard error and leaves the view only if no textual response
\* exists; with a text at response.message, at response.result (a string) or
\* at response.result.text the run stores a text found there as
\* rawResponseText, shows the results view and sets no errorMessage.
C14_TextOrHardError ==
    [][AnswerWithoutRecords =>
          IF TextExists(run'.result)
          THEN /\ \E i \in 1..3 : /\ IsTextAt(run'.result, i)
                                  /\ rawResponseText' = Shown(TextPlaces(run'.result)[i])
               /\ view' = "results"
               /\ errorMessage' = Null
          ELSE /\ errorMessage' = NoDataError
               /\ view' = view]_vars

\* The same for answers whose only text is at response.result.text set aside.
C14_TextOrHardErrorElsewhere ==
    [][AnswerWithoutRecords /\ (IsTextAt(run'.result, 3) => IsTextAt(run'.result, 1)
                                                            \/ IsTextAt(run'.result, 2)) =>
          IF TextExists(run'.result)
          THEN /\ \E i \in 1..3 : /\ IsTextAt(run'.result, i)
                                  /\ rawResponseText' = Shown(TextPlaces(run'.result)[i])
               /\ view' = "results"
               /\ errorMessage' = Null
          ELSE /\ errorMessage' = NoDataError
               /\ view' = view]_vars

(***************************************************************************)
(* C15: every run ends                                                     *)
(***************************************************************************)
\* The run has ended: nothing loads and no agent is shown as active.
RunEnded == pc = "idle" /\ ~loading /\ activeAgentId = Null

\* An awaited call rejects: the run ends at the call without its answer.
Rejected ==
    \/ pc = "upload" /\ pc' = "idle" /\ run'.upload = Undef
    \/ pc = "agent" /\ pc' = "idle" /\ run'.result = Undef

\* The agent answers with success true and the records found hold a null.
NullRecord ==
    /\ pc = "agent" /\ run'.result # Undef
    /\ Get(run'.result, "success") = Bool(TRUE)
    /\ \E i \in DOMAIN extractedOf(run'.result).enriched :
           Deref(extractedOf(run'.result).enriched[i]) = Null

GenericError(message) == Str("An unexpected error occurred: " \o message)

\* A step in which the run throws ends the run with the generic error that
\* carries the message, and with the view and the results as they were.
ExceptionCaught ==
    /\ Rejected => errorMessage' = GenericError("Failed to fetch")
    /\ NullRecord =>
           errorMessage' = GenericError("Cannot read properties of null (reading 'name')")
    /\ Rejected \/ NullRecord => RunEnded' /\ UNCHANGED <<view, resultVars>>

\* C15: every started run ends with loading false and activeAgentId null,
\* whatever path it takes, when the awaited calls resolve or reject; an
\* exception thrown in the run ends it with errorMessage set to the generic
\* failure text that carries the exception's message.
C15_EveryRunEnds ==
    /\ (pc # "idle" \/ loading) ~> RunEnded
    /\ [][(pc # "idle" /\ pc' = "idle" => RunEnded') /\ ExceptionCaught]_vars

\* A run has ended by the exception a null record raised.
C15_Witness ==
    /\ RunEnded /\ run # Null /\ run.result # Undef
    /\ \E i \in DOMAIN extractedOf(run.result).enriched :
           Deref(extractedOf(run.result).enriched[i]) = Null
    /\ errorMessage = GenericError("Cannot read properties of null (reading 'name')")
    /\ view = "upload"

(***************************************************************************)
(* C16: one run at a time                                                  *)
(***************************************************************************)
\* While a run stands at an await, loading is true and the upload view,
\* which holds the Enrich button, is the view the run started from.
LoadingWhileInFlight ==
    /\ pc # "idle" => loading /\ view = "upload" /\ activeAgentId = Str(MANAGER_AGENT_ID)
    /\ loading => pc # "idle"

\* The step enters handleEnrich: a new run stands at its first await.
EnrichEntered == run' # run /\ run'.step = "started" /\ run'.upload = Undef

\* C16: at most one run is in flight at any time: whatever the user does
\* (files, sample switch, Enrich, filter and sort clicks, Start New
\* Enrichment) while the upload and the agent call are pending,
\* handleEnrich is entered only while loading is false and no run stands at
\* an await.
C16_OneRunInFlight ==
    /\ []LoadingWhileInFlight
    /\ [][EnrichEntered => ~loading /\ pc = "idle" /\ view = "upload"]_vars

\* A run waits for the agent while the user has switched the sample mode on
\* and a file selected before the run is still being read.
C16_Witness ==
    /\ pc = "agent" /\ loading
    /\ ~run.sample /\ sampleMode
    /\ readers # <<>>

(***************************************************************************)
(* C17: the priority of the places deepExtractEnrichedData looks at        *)
(***************************************************************************)
\* deepExtractEnrichedData(arg, 0) has returned ret.
Extracted == fn = "deepExtractEnrichedData"

\* The object carries a non-empty array under enriched_data.
CarriesRecords(v) ==
    /\ v.t = "obj" /\ HasKey(v.kv, "enriched_data")
    /\ Get(v, "enriched_data").t = "arr" /\ Get(v, "enriched_data").el # <<>>

\* Such an object gives that array, its sibling summary and its sibling
\* artifact_files, whatever else it holds.
DirectMatchFirst ==
    Extracted /\ CarriesRecords(arg) =>
        /\ ret.enriched = Get(arg, "enriched_data").el
        /\ ret.summary = (IF HasKey(arg.kv, "summary") /\ Get(arg, "summary") # Undef
                          THEN Get(arg, "summary") ELSE Null)
        /\ ret.artifacts = (IF Get(arg, "artifact_files").t = "arr"
                            THEN Get(arg, "artifact_files").el ELSE <<>>)

\* The first element is an object with name or company and with revenue,
\* sector or decision_maker.
FirstIsRecord(v) ==
    /\ v.el # <<>> /\ Deref(v.el[1]).t = "obj"
    /\ \E k \in {"name", "company"} : HasKey(Deref(v.el[1]).kv, k)
    /\ \E k \in {"revenue", "sector", "decision_maker"} : HasKey(Deref(v.el[1]).kv, k)

\* An array is the enriched set only when its first element is a record.
BareArrayOnlyOfRecords ==
    Extracted /\ arg.t = "arr" /\ ret.enriched # <<>> /\ ret.enriched = arg.el =>
        FirstIsRecord(arg)

\* The places of the wrapper keys, in the listed order, that hold records
\* one level down.
WrapperHits(v) ==
    {i \in 1..7 :
        LET k == <<"result", "response", "data", "output", "content", "message", "text">>[i]
        IN /\ HasKey(v.kv, k) /\ ~Nullish(Get(v, k))
           /\ deepExtractEnrichedData(Get(v, k), 1).enriched # <<>>}

FirstHit(v) == CHOOSE i \in WrapperHits(v) : \A j \in WrapperHits(v) : i <= j

\* An object without records of its own gives what its first wrapper key
\* with records gives, whatever its other keys hold and wherever they stand.
WrapperKeysInOrder ==
    Extracted /\ arg.t = "obj" /\ ~CarriesRecords(arg) /\ WrapperHits(arg) # {} =>
        ret = deepExtractEnrichedData(
                  Get(arg, <<"result", "response", "data", "output", "content", "message",
                             "text">>[FirstHit(arg)]), 1)

\* C17: an object that carries a non-empty array under enriched_data returns
\* exactly that array with its sibling summary (null when absent) and its
\* sibling artifact_files when that is an array (else empty), whatever
\* wrapper keys or nested payloads it also has; a bare array is taken as the
\* enriched set only when its first element is an object with name or company
\* and with revenue, sector or decision_maker; the wrapper keys are probed in
\* the listed order before any other key.
C17_PriorityKept ==
    /\ DirectMatchFirst
    /\ BareArrayOnlyOfRecords
    /\ WrapperKeysInOrder

\* An object with records of its own, records under two wrapper keys and
\* records under another key has been extracted.
C17_Witness ==
    /\ Extracted /\ arg \in PriorityInputs
    /\ CarriesRecords(arg)
    /\ {1, 7} \subseteq WrapperHits(arg)
    /\ HasKey(arg.kv, "payload")
    /\ ret.summary = Null /\ ret.artifacts # <<>>

(***************************************************************************)
(* The candidate views of an agent result (page.tsx 572-591), on results   *)
(* that hold different records at the places the views look at.            *)
(***************************************************************************)
HolderEmpty == Obj(<< <<"enriched_data", Arr(<<>>)>>, <<"summary", SummaryOne>> >>)

ViewResponses ==
    {Undef, Null}
    \cup {Obj(<< <<"status", Str("success")>> >> \o Slot("enriched_data", e)
              \o Slot("summary", s) \o Slot("result", r)) :
             e \in {Undef, Arr(<<RecPartial>>)},
             s \in {Undef, SummaryOne},
             r \in {Undef, Null, Str(""), Str("no data"), Holder(<<RecFull>>), HolderEmpty}}

ViewRawResponses ==
    {Undef, Str(""), Str("sorry, no JSON here"), JsonStr("null", TRUE, Null),
     JsonStr("Here you are: {...}", FALSE, Holder(<<RecTyped>>))}

ViewInputs ==
    {Obj(<< <<"success", Bool(TRUE)>> >> \o Slot("enriched_data", e)
         \o Slot("response", response) \o Slot("raw_response", raw)) :
        e \in {Undef, Arr(<<RecAlias>>)},
        response \in ViewResponses,
        raw \in ViewRawResponses}

InitViews ==
    /\ PageInit
    /\ fn = "none"
    /\ arg \in ViewInputs
    /\ ret = <<>>
    /\ stack = <<>>

\* Lines 572-591 on one agent result
CallExtractViews ==
    /\ fn = "none"
    /\ fn' = "extractViews"
    /\ ret' = extractedOf(arg)
    /\ UNCHANGED <<arg, stack, pageVars>>

NextViews == CallExtractViews

SpecViews == InitViews /\ [][NextViews]_vars

(***************************************************************************)
(* C18: the order of the views                                             *)
(***************************************************************************)
\* The decoded raw_response, undefined where the result has no text there or
\* the text holds no JSON.
DecodedRaw(result) ==
    LET raw == GetOpt(result, "raw_response")
    IN IF raw.t = "str" /\ raw.s # "" /\ "json" \in DOMAIN raw THEN raw.json ELSE Undef

\* response.result, response, the whole result, the decoded raw_response
ViewsOf(result) ==
    << IF In("response", result) /\ In("result", Get(result, "response"))
       THEN Get(Get(result, "response"), "result") ELSE Undef,
       IF In("response", result) THEN Get(result, "response") ELSE Undef,
       result,
       DecodedRaw(result) >>

\* The views that are present and yield records.
YieldingViews(result) ==
    {i \in 1..4 : /\ ~Falsy(ViewsOf(result)[i])
                  /\ deepExtractEnrichedData(ViewsOf(result)[i], 0).enriched # <<>>}

\* The views that are present.
PresentViews(result) == {i \in 1..4 : ~Falsy(ViewsOf(result)[i])}

First(S) == CHOOSE i \in S : \A j \in S : i <= j
Last(S) == CHOOSE i \in S : \A j \in S : j <= i

\* C18: the views are tried in the order response.result, response, the
\* whole result, decoded raw_response; the first view whose extraction
\* yields a non-empty enriched set gives the records and the summary and no
\* later view replaces them; absent (falsy) views are skipped, so that
\* without any yielding view the extraction is that of the last view present.
C18_FirstYieldingView ==
    fn = "extractViews" =>
        IF YieldingViews(arg) # {}
        THEN ret = deepExtractEnrichedData(ViewsOf(arg)[First(YieldingViews(arg))], 0)
        ELSE IF PresentViews(arg) # {}
        THEN ret = deepExtractEnrichedData(ViewsOf(arg)[Last(PresentViews(arg))], 0)
        ELSE ret = EmptyResult

\* The first view is absent, the second and the third yield different
\* records, and the records are those of the second.
C18_Witness ==
    /\ fn = "extractViews"
    /\ Falsy(ViewsOf(arg)[1])
    /\ {2, 3} \subseteq YieldingViews(arg)
    /\ deepExtractEnrichedData(ViewsOf(arg)[2], 0) # deepExtractEnrichedData(ViewsOf(arg)[3], 0)
    /\ ret.enriched = <<RecPartial>> /\ ret.summary = SummaryOne

(***************************************************************************)
(* C19: the first alias present and non-null gives the field               *)
(***************************************************************************)
\* The places in the alias list of field whose alias the raw record r holds
\* with a value that is not null or undefined.
PresentAliases(r, field) ==
    {i \in 1..Len(AliasesOf(field)) :
        /\ r.t = "obj" /\ HasKey(r.kv, AliasesOf(field)[i])
        /\ r.kv[KeyIndex(r.kv, AliasesOf(field)[i])][2].t \notin {"null", "undef"}}

\* The text of field in the record normalized from r.
ResolvedField(r, field) ==
    IF PresentAliases(r, field) = {}
    THEN (CASE field = "confidence" -> "Low"
            [] field \in {"name", "company"} -> ""
            [] OTHER -> "N/A")
    ELSE JSString(r.kv[KeyIndex(r.kv, AliasesOf(field)[First(PresentAliases(r, field))])][2])

Resolved(r) == [field \in FieldSet |-> ResolvedField(r, field)]

\* Every normalized field is the string form of the first alias present and
\* non-null.
FirstAliasWins ==
    fn = "normalizeRecord" => ret = Resolved(arg)

\* The records of an array without null or undefined element are normalized
\* one by one, in order.
OneRecordPerElement ==
    fn = "extractNormalize" /\ arg.t = "arr"
    /\ (\A i \in 1..Len(arg.el) : arg.el[i].t \notin {"null", "undef"}) =>
        /\ Len(ret) = Len(arg.el)
        /\ \A i \in 1..Len(arg.el) : ret[i] = Resolved(arg.el[i])

\* The record of the claim, and the string forms of a number, a boolean, an
\* array and an object.
AliasExamples ==
    /\ fn = "normalizeRecord" /\ arg = RecAlias =>
           ret = [name |-> "A", company |-> "B", revenue |-> "N/A", sector |-> "N/A",
                  decision_maker |-> "N/A", job_title |-> "N/A", confidence |-> "Low"]
    /\ fn = "normalizeRecord" /\ arg = RecTyped =>
           ret = [name |-> "Ann", company |-> "", revenue |-> "45", sector |-> "N/A",
                  decision_maker |-> "true", job_title |-> "VP,,2.5",
                  confidence |-> "[object Object]"]
    /\ fn = "normalizeRecord" /\ arg = RecBoth =>
           ret = [name |-> "Per", company |-> "Co", revenue |-> "8", sector |-> "Food",
                  decision_maker |-> "false", job_title |-> "Lead", confidence |-> "Medium"]

RunDerivedSummary ==
    /\ pc = "idle" /\ run # Null /\ summary # Null
    /\ run.step \in {"enriched", "rawText", "noData"}
    /\ extractedOf(run.result).summary = Null

\* s holds word, in whatever case.
HoldsWord(s, word) ==
    \E i \in 1..Len(s) : \E j \in i..Len(s) : toLowerCase(SubSeq(s, i, j)) = word

NumberWith(field, word) ==
    Cardinality({i \in 1..Len(enrichedData) : HoldsWord(enrichedData[i][field], word)})

\* p is 100 * c / n rounded to the nearest integer, halves upwards.
IsRounded(p, c, n) == 2 * n * p <= 200 * c + n /\ 200 * c + n < 2 * n * (p + 1)

\* The rows the table shows under a filter mode.
ViewUnder(mode) == filterAndSort(tableData, mode, sortField, sortDir)

\* The four fields of a derived summary.
DerivedFromRecords ==
    RunDerivedSummary =>
        /\ summary.total_records = Num(Len(enrichedData))
        /\ summary.decision_makers_found = Num(NumberWith("decision_maker", "yes"))
        /\ summary.low_confidence_count = Num(NumberWith("confidence", "low"))
        /\ summary.decision_makers_found.tenths <= summary.total_records.tenths
        /\ summary.low_confidence_count.tenths <= summary.total_records.tenths
        /\ IF Len(enrichedData) = 0 THEN summary.high_confidence_rate = "0%"
           ELSE \E p \in 0..100 :
                   /\ summary.high_confidence_rate = natToString(p) \o "%"
                   /\ IsRounded(p, NumberWith("confidence", "high"), Len(enrichedData))

\* The counts against the sizes of the filtered views.
CountsAreViewSizes ==
    /\ summary.total_records = Num(Len(ViewUnder("all")))
    /\ summary.decision_makers_found = Num(Len(ViewUnder("decision_makers")))
    /\ summary.low_confidence_count = Num(Len(ViewUnder("low_confidence")))

\* C20 as claimed: without a supplied summary the summary of the run is
\* derived from the normalized records alone, and each count equals the size
\* of the corresponding filtered view.
C20_CountsOfViews ==
    /\ DerivedFromRecords
    /\ RunDerivedSummary /\ view = "results" => CountsAreViewSizes

\* C20 as amended: without a supplied summary the summary of the run is
\* derived from the normalized records alone (record count, records whose
\* decision_maker holds "yes", records whose confidence holds "low", rounded
\* percentage of records whose confidence holds "high" or "0%"), and each
\* count equals the size of the corresponding filtered view while the table
\* shows the records of the run, which it does unless there are none and
\* sample mode is on.
C20_DerivedSummary ==
    /\ DerivedFromRecords
    /\ RunDerivedSummary /\ view = "results" /\ ~(sampleMode /\ enrichedData = <<>>) =>
           CountsAreViewSizes

\* A run without a supplied summary has found three records of which two
\* hold "yes", two hold "low" and one holds "high": 33%.
C20_Witness ==
    /\ RunDerivedSummary /\ view = "results"
    /\ Len(enrichedData) = 3
    /\ summary.decision_makers_found = Num(2)
    /\ summary.low_confidence_count = Num(2)
    /\ summary.high_confidence_rate = "33%"
    /\ filterMode = "decision_makers" /\ Len(getFilteredData) = 2

(***************************************************************************)
(* C21: the name and the company of a row                                  *)
(***************************************************************************)
\* The place (from 1) of the first header that is a name column, a company
\* column; 0 without one.
FirstNameHeader(headers) ==
    IF \E i \in 1..Len(headers) : isNameHeader(headers[i])
    THEN First({i \in 1..Len(headers) : isNameHeader(headers[i])}) ELSE 0
FirstCompanyHeader(headers) ==
    IF \E i \in 1..Len(headers) : isCompanyHeader(headers[i])
    THEN First({i \in 1..Len(headers) : isCompanyHeader(headers[i])}) ELSE 0

\* The trimmed k-th value, empty when the line has fewer values.
TrimmedValue(values, k) == IF k <= Len(values) THEN trim(values[k]) ELSE ""

\* The value at the detected column when it lies within the values, else
\* the value at the fallback place.
ColumnValue(values, detected, fallback) ==
    IF detected >= 1 /\ detected <= Len(values)
    THEN trim(values[detected]) ELSE TrimmedValue(values, fallback)

\* The data lines whose row is pushed (line 102).
PushedLines(text) ==
    SelectSeq(DataLines(text),
              LAMBDA l : LET row == buildRow(parseHeaders(nonBlankLines(text)[1]),
                                             parseCSVLine(l))
                         IN rowName(row) # "" \/ rowCompany(row) # "")

\* Every row holds, as name and as company, the values of its columns.
RowsHoldColumns(text, rows) ==
    LET headers == parseHeaders(nonBlankLines(text)[1])
        pushed == PushedLines(text)
    IN /\ Len(rows) = Len(pushed)
       /\ \A i \in 1..Len(rows) :
             /\ rowName(rows[i])
                = ColumnValue(parseCSVLine(pushed[i]), FirstNameHeader(headers), 1)
             /\ rowCompany(rows[i])
                = ColumnValue(parseCSVLine(pushed[i]), FirstCompanyHeader(headers), 2)

\* C21: for every header line and every data line the row's name is the
\* trimmed value at the first header matching a name alias when that place
\* lies within the line's values, else the trimmed first value, and the row's
\* company is the trimmed value at the first header matching a company alias
\* when in range, else the trimmed second value (empty when absent), also
\* with several matching headers and with the other headers copied into the
\* row.
C21_NameAndCompanyColumns ==
    fn = "parseCSV" /\ Len(nonBlankLines(arg)) >= 2 => RowsHoldColumns(arg, ret)

\* No header other than the detected ones has the text name or company.
NoHeaderIsKey(headers) ==
    \A j \in 1..Len(headers) :
        /\ headers[j] = "name" => j = FirstNameHeader(headers)
        /\ headers[j] = "company" => j = FirstCompanyHeader(headers)

\* The same for the header lines in which no further header has the text
\* name or company.
C21_ColumnsUnlessHeaderIsKey ==
    fn = "parseCSV" /\ Len(nonBlankLines(arg)) >= 2
    /\ NoHeaderIsKey(parseHeaders(nonBlankLines(arg)[1])) => RowsHoldColumns(arg, ret)

(***************************************************************************)
(* C22: the headers taken as name column and as company column             *)
(***************************************************************************)
\* The header texts the patterns are said to accept, in lower case.
ListedNameHeaders ==
    {"name", "full name", "full.name", "contact name", "contact.name", "person"}
ListedCompanyHeaders ==
    {"company", "organization", "org", "company name", "company.name", "employer"}

\* C22 as claimed: a header is the name column only when, ignoring case, it
\* is one of name, full name, full.name, contact name, contact.name, person,
\* and the company column only when it is one of company, organization, org,
\* company name, company.name, employer.
C22_OnlyListedHeaders ==
    fn = "testHeader" =>
        /\ ret.name => toLowerCase(arg) \in ListedNameHeaders
        /\ ret.company => toLowerCase(arg) \in ListedCompanyHeaders

\* The header texts with nothing or one character, no line break, between
\* the two words.
JoinedNameHeaders ==
    {"fullname", "full_name", "full-name", "contactname", "contact_name", "contact-name"}
JoinedCompanyHeaders == {"companyname", "company_name"}

\* C22 as amended: a header is the name column exactly when, ignoring case,
\* it is name or person, or full or contact followed by name with nothing or
\* one character that is no line break between them (full name, full.name,
\* fullname, full_name); it is the company column exactly when it is company,
\* organization, org or employer, or company followed by name in the same
\* way; a header that merely contains one of these words is no such column.
C22_HeaderPatterns ==
    fn = "testHeader" =>
        /\ ret.name <=> toLowerCase(arg) \in ListedNameHeaders \cup JoinedNameHeaders
        /\ ret.company <=> toLowerCase(arg) \in ListedCompanyHeaders \cup JoinedCompanyHeaders

\* The header fullname has been tested and is a name column.
C22_Witness ==
    /\ fn = "testHeader" /\ arg = "FullName"
    /\ ret.name /\ ~ret.company

(***************************************************************************)
(* Runs whose agent result holds texts that do not decode: at              *)
(* response.result, beside records under response.data, and at             *)
(* raw_response, beside artifact files at the top level.                   *)
(***************************************************************************)
\* The records and files that a decodable raw_response carries.
RawEnvelope ==
    Obj(<< <<"enriched_data", Arr(<<RecPartial>>)>> >> \o Outputs(Arr(<<FileC>>)))

\* Texts at response.result: none, one without JSON, one that decodes to a
\* number, one that holds records inside prose.
DecodeTexts ==
    {Undef, Str("no data"), JsonStr("42", TRUE, Num(42)),
     JsonStr("Here you are: {...}", FALSE, Holder(<<RecFull>>))}

\* Texts at raw_response: none, one without JSON, one that decodes to true,
\* the envelope inside prose (JSON.parse rejects it), the envelope alone.
DecodeRawTexts ==
    {Undef, Str("sorry, no JSON here"), JsonStr("true", TRUE, Bool(TRUE)),
     JsonStr("Result: {...}", FALSE, RawEnvelope), JsonStr("{...}", TRUE, RawEnvelope)}

DecodeResult(r, d, raw, top) ==
    Obj(<< <<"success", Bool(TRUE)>>,
           <<"response", Obj(<< <<"status", Str("success")>> >>
                             \o Slot("result", r) \o Slot("data", d))>> >>
        \o Outputs(top) \o Slot("raw_response", raw))

DecodeData == {Undef, Holder(<<RecAlias>>)}
DecodeTops == {Undef, Arr(<<>>), Arr(<<FileA>>)}

DecodeResults ==
    {DecodeResult(r, d, raw, top) :
        r \in DecodeTexts, d \in DecodeData, raw \in DecodeRawTexts, top \in DecodeTops}

\* Lines 563-645 with one of these results
DecodeStep == \E result \in DecodeResults : AgentResolve(result)

NextDecode ==
    \/ processFile(FileBook)
    \/ handleEnrich
    \/ \E u \in UploadResults : UploadResolve(u)
    \/ DecodeStep

SpecDecode == Init /\ [][NextDecode]_vars

(***************************************************************************)
(* C23: a decode failure is passed over                                    *)
(***************************************************************************)
\* A text the lenient decoder rejects, or decodes to no object.
NoObjectIn(v) ==
    /\ v # Undef
    /\ "json" \in DOMAIN v => v.json.t \notin {"obj", "arr"}
\* A text JSON.parse rejects.
NoJsonIn(v) == v # Undef /\ ("json" \in DOMAIN v => ~v.strict)

\* The records of the first place that carries some: response.result, then
\* response.data, then the decoded raw_response.
RecordsPassingOver(r, d, raw) ==
    IF ~NoObjectIn(r) /\ r # Undef THEN <<RecFull>>
    ELSE IF d # Undef THEN <<RecAlias>>
    ELSE IF ~NoObjectIn(raw) /\ raw # Undef THEN <<RecPartial>>
    ELSE <<>>

\* The files of the top level, else those of a raw_response that is JSON.
FilesPassingOver(raw, top) ==
    IF top = Arr(<<FileA>>) THEN <<FileA>>
    ELSE IF ~NoJsonIn(raw) /\ raw # Undef /\ raw.json.t = "obj" THEN <<FileC>>
    ELSE <<>>

\* How the run of such a result ends: records, else the text of
\* response.result, else the message that no data was returned.
EndPassingOver(r, d, raw, top) ==
    /\ enrichedData = normalizeEnriched(RecordsPassingOver(r, d, raw))
    /\ artifactFiles = FilesPassingOver(raw, top)
    /\ ~loading /\ run.step # "caught"
    /\ IF RecordsPassingOver(r, d, raw) # <<>>
       THEN view = "results" /\ errorMessage = Null /\ rawResponseText = Null
       ELSE IF r # Undef
       THEN view = "results" /\ errorMessage = Null /\ rawResponseText = Str(r.s)
       ELSE /\ view = "upload"
            /\ errorMessage = Str("No enrichment data was returned. The agent may not have processed the file correctly. Please try again.")

\* C23: a decode failure never propagates and never ends a run in error by
\* itself.  deepExtractEnrichedData returns the empty result for a text that
\* the lenient decoder rejects or decodes to no object; a raw_response that
\* the lenient decoder rejects adds no view; a raw_response that JSON.parse
\* rejects gives no artifact files; the other places are still tried, so
\* the run ends as it does without the text that failed to decode, with
\* errorMessage set only where no place holds records or a text.
C23_DecodeFailurePassedOver ==
    \A r \in DecodeTexts, d \in DecodeData, raw \in DecodeRawTexts, top \in DecodeTops :
        pc = "idle" /\ run # Null /\ run.result = DecodeResult(r, d, raw, top) =>
            /\ NoObjectIn(r) => deepExtractEnrichedData(r, 0) = EmptyResult
            /\ NoObjectIn(raw) => deepExtractEnrichedData(raw, 0) = EmptyResult
            /\ raw = Str("sorry, no JSON here") => Len(sourcesOf(run.result)) = 3
            /\ NoJsonIn(raw) => extractArtifactFiles(DecodeResult(r, d, raw, Undef)) = <<>>
            /\ EndPassingOver(r, d, raw, top)
            /\ NoObjectIn(raw) =>
                   /\ RecordsPassingOver(r, d, raw) = RecordsPassingOver(r, d, Undef)
                   /\ FilesPassingOver(raw, top) = FilesPassingOver(Undef, top)

\* A run has ended with records: response.result held a text without JSON,
\* raw_response held one too, and the records stood under response.data.
C23_Witness ==
    /\ pc = "idle" /\ run # Null
    /\ run.result = DecodeResult(Str("no data"), Holder(<<RecAlias>>),
                                 Str("sorry, no JSON here"), Undef)
    /\ Len(enrichedData) = 1 /\ enrichedData[1].name = "A"
    /\ artifactFiles = <<>>
    /\ errorMessage = Null

(***************************************************************************)
(* C24: the rows of the agent prompt                                       *)
(***************************************************************************)
\* The rows parsed from a file: those of its text when it is a CSV file,
\* none when it is a spreadsheet.
RowsOfFile(file) == IF isCsv(file) THEN parseCSV(file.text) ELSE <<>>

\* Every row of rows is a row of the file.
RowsFromFile(rows, file) ==
    \A i \in 1..Len(rows) :
        \E j \in 1..Len(RowsOfFile(file)) : RowsOfFile(file)[j] = rows[i]

\* C24: whatever files were selected, cleared or failed to parse and however
\* the sample switch was toggled before, the rows that a non-sample run
\* holds for the agent prompt when it calls the agent are rows parsed from
\* the file it has uploaded, or none; rows of another file or of the sample
\* data are never among them.
C24_PromptRowsOfCurrentFile ==
    pc = "agent" /\ ~run.sample => RowsFromFile(run.allRows, run.file)

(***************************************************************************)
(* The data line of exportCSV read back by parseCSVLine.                   *)
(***************************************************************************)
MaxFieldLen == 2
\* Field values without a line break: plain characters, commas, quotes.
FieldTexts == StringsUpTo({"a", ",", "\""}, MaxFieldLen)

FieldNames ==
    <<"name", "company", "revenue", "sector", "decision_maker", "job_title", "confidence">>

\* The record with s in its p-th field, t in the field after it (the first
\* after the last), and plain values in the five others.
RecordWith(p, s, t) ==
    LET plain == <<"Ada Lovelace", "Acme", "N/A", "SaaS", "Yes", "CTO", "High">>
        value(k) == IF k = p THEN s ELSE IF k = (p % 7) + 1 THEN t ELSE plain[k]
    IN [name |-> value(1), company |-> value(2), revenue |-> value(3),
        sector |-> value(4), decision_maker |-> value(5), job_title |-> value(6),
        confidence |-> value(7)]

ExportRecords == {RecordWith(p, s, t) : p \in 1..7, s \in FieldTexts, t \in FieldTexts}

InitRoundTrip ==
    /\ PageInit
    /\ fn = "none"
    /\ arg \in ExportRecords
    /\ ret = ""
    /\ stack = <<>>

\* Lines 683-691 on one record
CallExportRow ==
    /\ fn = "none"
    /\ fn' = "exportRow"
    /\ ret' = exportRow(arg)
    /\ UNCHANGED <<arg, stack, pageVars>>

\* Lines 107-135 on the line written
CallSplitExported ==
    /\ fn = "exportRow"
    /\ fn' = "splitExported"
    /\ ret' = parseCSVLine(ret)
    /\ UNCHANGED <<arg, stack, pageVars>>

NextRoundTrip == CallExportRow \/ CallSplitExported

SpecRoundTrip == InitRoundTrip /\ [][NextRoundTrip]_vars

(***************************************************************************)
(* C25: export and the splitter round-trip                                 *)
(***************************************************************************)
\* C25: for every record whose seven values hold no line break (commas and
\* double quotes allowed), parseCSVLine applied to the data line that
\* exportCSV writes for the record returns exactly seven fields, equal in
\* order to name, company, revenue, sector, decision_maker, job_title and
\* confidence.
C25_ExportRoundTrip ==
    fn = "splitExported" =>
        ret = <<arg.name, arg.company, arg.revenue, arg.sector, arg.decision_maker,
                arg.job_title, arg.confidence>>

\* The line of a record whose sector is a comma and a quote and whose
\* decision_maker is two quotes has been split into its seven values.
C25_Witness ==
    /\ fn = "splitExported"
    /\ arg.sector = ",\"" /\ arg.decision_maker = "\"\""
    /\ Len(ret) = 7 /\ ret[4] = ",\"" /\ ret[5] = "\"\""

=============================================================================
